---- MODULE Spec2Model ----
(***************************************************************************)
(* A model of the fabric RAG pipeline of bettercallhenk_LP:               *)
(*   - FabricProcessor.similarity_search      (modules/fabric_processor)  *)
(*   - FabricProcessor._generate_embeddings,                              *)
(*     process_fabric, process_batch          (modules/fabric_processor)  *)
(*   - DatabaseManager.search_fabrics_by_vector (database/db_manager)     *)
(*   - OutfitGenerator._find_suitable_fabrics (modules/outfit_generator)  *)
(*   - recommend_fabrics, the /recommend query builder (modules/fabric_api)*)
(*                                                                         *)
(* Scores are cosine similarities in hundredths, rounded down (0.82 is    *)
(* 82); an embedding is a vector of `dims` components of which the first   *)
(* two (xy) may be non-zero.                                               *)
(***************************************************************************)
EXTENDS Integers, Sequences, FiniteSets, TLC

VARIABLES
    chunks,        \* similarity_search: the list of FabricChunk it is given
    search_call,   \* similarity_search: the call made (or "idle")
    results,       \* similarity_search: the list it returned
    batch,         \* _generate_embeddings: the caller's list of chunks (mutated in place)
    embed_call,    \* embedding client: the call made (or "idle")
    embed_return,  \* embedding client: what the call handed back to its caller
    service_calls, \* embedding client: embeddings.create calls made by the call
    fabric_embeddings, \* the store: the rows of table fabric_embeddings
    db_call,       \* search_fabrics_by_vector: the call made (or "idle")
    db_results,    \* search_fabrics_by_vector: what it handed back
    prefs,         \* the preference object (an OutfitSpec, or the /recommend body)
    processed_doc, \* processed_latest.json: the processed chunks
    fabrics_doc,   \* fabrics_latest.json: the fabric records
    rag_call,      \* retrieval query builder: the call made (or "idle")
    rag_return,    \* retrieval query builder: the query built and what was returned
    fabrics_table, \* the store: the committed rows of table fabrics
    sessions,      \* save_fabric / save_fabrics_batch: each writer's session and position
    embeddings_table,   \* the store: the committed rows of table fabric_embeddings
    embedding_sessions, \* save_embeddings_batch: each writer's session and position
    fabric,        \* chunk builder: the FabricData record it is given
    built,         \* chunk builder: the call made and what it returned
    weight,        \* weight bands: the weight asked about
    weight_result, \* weight bands: the call made and what it returned
    outfit_spec,   \* prompt assembler: the OutfitSpec it is given
    prompt,        \* prompt assembler: the call made and what it returned
    class_weight,  \* weight classes: the weight of the fabric asked about
    classes,       \* weight classes: what each component made of the weight
    base_spec,     \* outfit generator: the caller's OutfitSpec object
    generation,    \* outfit generator: the call, its position and its calls so far
    ingested,      \* fabrics documents: the records an ingestion stage had
    document,      \* fabrics documents: the JSON document it wrote
    loaded,        \* fabrics documents: what a loader made of the document
    database,      \* the store: the rows of fabrics and fabric_embeddings
    store_call,    \* the store: the last save call and the rows before it
    session_use    \* get_session: each caller's position and events

search_vars == <<chunks, search_call, results>>
embed_vars == <<batch, embed_call, embed_return, service_calls>>

db_vars == <<fabric_embeddings, db_call, db_results>>

rag_vars == <<prefs, processed_doc, fabrics_doc, rag_call, rag_return>>

save_vars == <<fabrics_table, sessions>>

write_vars == <<embeddings_table, embedding_sessions>>

build_vars == <<fabric, built>>

weight_vars == <<weight, weight_result>>

ingest_vars == <<save_vars, write_vars, build_vars, weight_vars>>

prompt_vars == <<outfit_spec, prompt>>

class_vars == <<class_weight, classes>>

generate_vars == <<base_spec, generation>>

document_vars == <<ingested, document, loaded>>

rows_vars == <<database, store_call>>

outfit_vars == <<prompt_vars, class_vars, generate_vars>>

record_vars == <<document_vars, rows_vars, session_use>>

vars == <<search_vars, embed_vars, db_vars, rag_vars, ingest_vars, outfit_vars, record_vars>>

retrieval_vars == <<search_vars, embed_vars, db_vars, rag_vars>>

OtherThanSave ==
    <<retrieval_vars, write_vars, build_vars, weight_vars, outfit_vars, record_vars>>

OtherThanStore == <<retrieval_vars, build_vars, weight_vars, outfit_vars, record_vars>>

OtherThanBuild ==
    <<retrieval_vars, save_vars, write_vars, weight_vars, outfit_vars, record_vars>>

OtherThanWeight ==
    <<retrieval_vars, save_vars, write_vars, build_vars, outfit_vars, record_vars>>

OtherThanPrompt == <<retrieval_vars, ingest_vars, class_vars, generate_vars, record_vars>>

OtherThanClass == <<retrieval_vars, ingest_vars, prompt_vars, generate_vars, record_vars>>

OtherThanGenerate == <<retrieval_vars, ingest_vars, prompt_vars, class_vars, record_vars>>

OtherThanDocument == <<retrieval_vars, ingest_vars, outfit_vars, rows_vars, session_use>>

OtherThanRows == <<retrieval_vars, ingest_vars, outfit_vars, document_vars, session_use>>

OtherThanSession == <<retrieval_vars, ingest_vars, outfit_vars, document_vars, rows_vars>>

(***************************************************************************)
(* Bounds of the model                                                     *)
(***************************************************************************)
MaxChunks == 6
MaxTopK == 2
MaxBatch == 4
MaxFabrics == 2
MaxDbFabrics == 2
MaxLimit == 2
MaxFindChunks == 4
MaxDocFabrics == 4
MaxSaves == 2
MaxWriteChunks == 2
WeightMargin == 5
MaxSeasons == 1
NoteMargin == 2
MaxVariants == 4
MaxIngest == 2
MaxStoreCalls == 3

(***************************************************************************)
(* config/fabric_config.py                                                 *)
(***************************************************************************)
OPENAI_EMBEDDING_DIMENSIONS == 1536
RAG_TOP_K_RESULTS == 5
PROMPT_LIMIT == 1000
PROMPT_KEPT == 997
RAG_SIMILARITY_THRESHOLD == 70
\* modules/fabric_api.py, recommend_fabrics: threshold=0.6
RECOMMEND_THRESHOLD == 60
\* modules/fabric_api.py, recommend_fabrics: data.get('limit', 3)
RECOMMEND_LIMIT == 3
\* modules/outfit_generator.py, _find_suitable_fabrics: top_k=5 and fabrics[:3]
FIND_TOP_K == 5
FIND_MAX_FABRICS == 3

\* chunk.embedding when absent: None (or an empty list), falsy in Python
None == [dims |-> 0, xy |-> <<>>]

(***************************************************************************)
(* Embedding vectors and numpy's cosine similarity                         *)
(***************************************************************************)
Vec(x, y) == [dims |-> OPENAI_EMBEDDING_DIMENSIONS, xy |-> <<x, y>>]

Dot(a, b) == a[1] * b[1] + a[2] * b[2]

\* the value numpy yields for 0.0 / 0.0; it compares false with everything
NaN == 0 - 1000

\* floor(100 * d / sqrt(n)) for n > 0, without leaving the integers
FloorRatio(d, n) ==
    IF d >= 0
    THEN CHOOSE s \in 0..100 :
             /\ s * s * n <= 10000 * d * d
             /\ (s + 1) * (s + 1) * n > 10000 * d * d
    ELSE 0 - (CHOOSE s \in 0..100 :
             /\ s * s * n >= 10000 * d * d
             /\ (s = 0 \/ (s - 1) * (s - 1) * n < 10000 * d * d))

\* the leading components of the vectors the model uses
Components == {<<0, 0>>, <<1, 0>>, <<1, 1>>, <<13, 9>>, <<9, 13>>}

\* np.dot(q, v) / (np.linalg.norm(q) * np.linalg.norm(v)), tabulated once
CosineTable ==
    [a \in Components, b \in Components |->
        LET n == Dot(a, a) * Dot(b, b)
        IN  IF n = 0 THEN NaN ELSE FloorRatio(Dot(a, b), n)]

CosineSimilarity(q, v) == CosineTable[q.xy, v.xy]

\* similarity >= threshold, as IEEE comparison: false for NaN
AtLeast(similarity, threshold) == similarity # NaN /\ similarity >= threshold

(***************************************************************************)
(* FabricProcessor.similarity_search                                       *)
(***************************************************************************)
\* against the query (1,0) the vector (1,0) scores 1.00 and (13,9) scores 0.82;
\* against (9,13) they score 0.56 and 0.93; the zero vector scores NaN
SearchVectors == {Vec(0, 0), Vec(1, 0), Vec(13, 9)}
QueryVectors == {Vec(1, 0), Vec(9, 13)}

\* the processor with no OpenAI client, or with one whose embeddings call for
\* the query succeeds or raises
SearchOutcomes ==
    {[configured |-> FALSE, service |-> "not called"],
     [configured |-> TRUE, service |-> "ok"],
     [configured |-> TRUE, service |-> "error"]}

\* chunk.embedding of a chunk handed to the search: absent, or a vector
SearchEmbeddings == {None} \cup SearchVectors

\* top_k as passed: <<>> when the argument is not supplied (None), else <<k>>
TopKArgs == {<<>>} \cup {<<k>> : k \in 0..MaxTopK}

\* top_k = top_k or config.RAG_TOP_K_RESULTS
EffectiveTopK(top_k) ==
    IF top_k = <<>> \/ top_k[1] = 0 THEN RAG_TOP_K_RESULTS ELSE top_k[1]

\* the scoring loop: (chunk, similarity) for every embedded chunk at or above
\* the threshold, in the order of the input list; a chunk is its position
RECURSIVE Candidates(_, _, _)
Candidates(q, cs, i) ==
    IF i > Len(cs) THEN <<>>
    ELSE LET rest == Candidates(q, cs, i + 1)
         IN  IF cs[i] # None
                /\ AtLeast(CosineSimilarity(q, cs[i]), RAG_SIMILARITY_THRESHOLD)
             THEN <<[chunk |-> i, score |-> CosineSimilarity(q, cs[i])]>> \o rest
             ELSE rest

\* list.sort(key=lambda x: x[1], reverse=True): stable, equal keys keep their order
RECURSIVE InsertDesc(_, _)
InsertDesc(sorted, e) ==
    IF sorted = <<>> THEN <<e>>
    ELSE IF Head(sorted).score >= e.score
         THEN <<Head(sorted)>> \o InsertDesc(Tail(sorted), e)
         ELSE <<e>> \o sorted

RECURSIVE SortDesc(_)
SortDesc(rs) ==
    IF rs = <<>> THEN <<>>
    ELSE InsertDesc(SortDesc(SubSeq(rs, 1, Len(rs) - 1)), rs[Len(rs)])

\* results[:top_k] for top_k >= 0
Slice(rs, k) == SubSeq(rs, 1, IF k < Len(rs) THEN k ELSE Len(rs))

SimilaritySearchResult(outcome, q, cs, top_k) ==
    IF ~outcome.configured THEN <<>>
    ELSE IF outcome.service = "error" THEN <<>>
    ELSE Slice(SortDesc(Candidates(q, cs, 1)), EffectiveTopK(top_k))

SearchIdle == [op |-> "idle"]

SearchInit ==
    /\ chunks \in UNION {[1..n -> SearchEmbeddings] : n \in 0..MaxChunks}
    /\ search_call = SearchIdle
    /\ results = <<>>

similarity_search ==
    /\ search_call = SearchIdle
    /\ \E outcome \in SearchOutcomes, q \in QueryVectors, top_k \in TopKArgs :
          /\ search_call' = [op |-> "similarity_search", outcome |-> outcome,
                             query |-> q, top_k |-> top_k]
          /\ results' = SimilaritySearchResult(outcome, q, chunks, top_k)
    /\ UNCHANGED chunks

SearchNext == similarity_search /\ UNCHANGED <<embed_vars, db_vars, rag_vars, ingest_vars, outfit_vars, record_vars>>

(***************************************************************************)
(* FabricProcessor._generate_embeddings, process_fabric, process_batch     *)
(***************************************************************************)
FabricCodes == {"A", "B"}

ChunkTypes == <<"characteristics", "visual", "usage", "technical">>

\* _create_fabric_chunks: every _build_*_chunk starts its parts with the
\* fabric code, so each of the four chunks is created; none has an embedding
CreateFabricChunks(code) ==
    [t \in 1..Len(ChunkTypes) |->
        [fabric_code |-> code, chunk_id |-> <<code, ChunkTypes[t]>>,
         chunk_type |-> ChunkTypes[t], embedding |-> None]]

\* the vectors the embedding service may answer with, of the dimensionality
\* the request asks for
ServiceData(dimensions) ==
    LET vs == {[dims |-> dimensions, xy |-> xy] : xy \in {<<1, 0>>, <<13, 9>>}}
    IN  UNION {[1..n -> vs] : n \in 0..MaxBatch}

\* answers that differ in length only, every vector the same
UniformData(dimensions) ==
    {[i \in 1..n |-> [dims |-> dimensions, xy |-> <<1, 0>>]] : n \in 0..MaxBatch}

\* embeddings.create(model, input=texts, dimensions): it raises, or answers
\* with a list of vectors (of the batch's length, or not)
ServiceResponses(dimensions) ==
    {[status |-> "error", data |-> <<>>]}
    \cup {[status |-> "ok", data |-> d] : d \in ServiceData(dimensions)}

\* the request _generate_embeddings makes
EmbeddingResponses == ServiceResponses(OPENAI_EMBEDDING_DIMENSIONS)

\* the answers drawn for each fabric of a process_batch run
BatchResponses ==
    {r \in EmbeddingResponses :
        r.status = "ok" => r.data \in UniformData(OPENAI_EMBEDDING_DIMENSIONS)}

\* a client that pairs chunk i with the vector counted from the end of data
AttachEmbeddingsReversed(cs, data) ==
    [i \in 1..Len(cs) |->
        IF i <= Len(data)
        THEN [cs[i] EXCEPT !.embedding = data[Len(data) + 1 - i]]
        ELSE cs[i]]

\* for i, chunk in enumerate(chunks): chunk.embedding = response.data[i].embedding
\* the loop stops with an IndexError at the first i past the end of data, the
\* chunks before it keeping the embeddings already attached
AttachEmbeddings(cs, data) ==
    [i \in 1..Len(cs) |->
        IF i <= Len(data) THEN [cs[i] EXCEPT !.embedding = data[i]] ELSE cs[i]]

\* _generate_embeddings: the chunks as they are when it returns; every
\* exception is caught and logged, and the same list is returned
GenerateEmbeddings(configured, cs, response) ==
    IF ~configured THEN [chunks |-> cs, raised |-> "none", calls |-> 0]
    ELSE IF response.status = "error"
         THEN [chunks |-> cs, raised |-> "none", calls |-> 1]
         ELSE [chunks |-> AttachEmbeddings(cs, response.data),
               raised |-> "none", calls |-> 1]

\* process_fabric: create the chunks, embed them when a client is configured
\* and there are chunks; _generate_embeddings catches its own exceptions, so
\* none reaches the except clause that would return []
ProcessFabric(configured, code, response) ==
    LET created == CreateFabricChunks(code)
    IN  IF configured /\ created # <<>>
        THEN GenerateEmbeddings(configured, created, response)
        ELSE [chunks |-> created, raised |-> "none", calls |-> 0]

\* process_batch: process_fabric for each fabric in turn, all_chunks extended
RECURSIVE ProcessBatch(_, _, _, _)
ProcessBatch(configured, fabrics, responses, i) ==
    IF i > Len(fabrics) THEN [chunks |-> <<>>, raised |-> "none", calls |-> 0]
    ELSE LET one == ProcessFabric(configured, fabrics[i], responses[i])
             rest == ProcessBatch(configured, fabrics, responses, i + 1)
         IN  [chunks |-> one.chunks \o rest.chunks,
              raised |-> "none",
              calls |-> one.calls + rest.calls]

\* the chunks of the fabrics A and B, in order
SampleChunks == CreateFabricChunks("A") \o CreateFabricChunks("B")

EmbedIdle == [op |-> "idle"]

NothingReturned == [value |-> <<>>, raised |-> "none"]

EmbedInit ==
    /\ batch \in {SubSeq(SampleChunks, 1, n) : n \in 0..MaxBatch}
    /\ embed_call = EmbedIdle
    /\ embed_return = NothingReturned
    /\ service_calls = 0

generate_embeddings ==
    /\ embed_call = EmbedIdle
    /\ \E configured \in BOOLEAN, response \in EmbeddingResponses :
          LET out == GenerateEmbeddings(configured, batch, response)
          IN  /\ embed_call' = [op |-> "_generate_embeddings",
                                configured |-> configured, input |-> batch,
                                responses |-> <<response>>]
              /\ batch' = out.chunks
              /\ embed_return' = [value |-> out.chunks, raised |-> out.raised]
              /\ service_calls' = out.calls

process_fabric ==
    /\ embed_call = EmbedIdle
    /\ batch = <<>>
    /\ \E configured \in BOOLEAN, code \in FabricCodes,
          response \in EmbeddingResponses :
          LET out == ProcessFabric(configured, code, response)
          IN  /\ embed_call' = [op |-> "process_fabric",
                                configured |-> configured,
                                input |-> CreateFabricChunks(code),
                                responses |-> <<response>>]
              /\ embed_return' = [value |-> out.chunks, raised |-> out.raised]
              /\ service_calls' = out.calls
    /\ UNCHANGED batch

process_batch ==
    /\ embed_call = EmbedIdle
    /\ batch = <<>>
    /\ \E configured \in BOOLEAN,
          fabrics \in UNION {[1..n -> FabricCodes] : n \in 0..MaxFabrics} :
          \E responses \in [1..Len(fabrics) -> BatchResponses] :
              LET out == ProcessBatch(configured, fabrics, responses, 1)
              IN  /\ embed_call' = [op |-> "process_batch",
                                    configured |-> configured,
                                    input |-> fabrics,
                                    responses |-> responses]
                  /\ embed_return' = [value |-> out.chunks, raised |-> out.raised]
                  /\ service_calls' = out.calls
    /\ UNCHANGED batch

EmbedNext ==
    \/ generate_embeddings /\ UNCHANGED <<search_vars, db_vars, rag_vars, ingest_vars, outfit_vars, record_vars>>
    \/ process_fabric /\ UNCHANGED <<search_vars, db_vars, rag_vars, ingest_vars, outfit_vars, record_vars>>
    \/ process_batch /\ UNCHANGED <<search_vars, db_vars, rag_vars, ingest_vars, outfit_vars, record_vars>>

(***************************************************************************)
(* DatabaseManager.search_fabrics_by_vector                                *)
(***************************************************************************)
\* fabrics.id of the stored fabrics; the order of the ids (UUIDs in the
\* store) has nothing to do with any similarity
FabricIds == 1..MaxDbFabrics

\* the chunk types under which the modelled stores hold rows
DbChunkTypes == {"characteristics", "visual"}

\* fabric_embeddings.embedding: NULL (a chunk saved without embedding) or a
\* vector of the embedding service; (1,1) scores 0.70 against (1,0), and
\* (13,9) scores 0.82; against (9,13) the three score 0.56, 0.98 and 0.93
StoredEmbeddings == {None, Vec(1, 0), Vec(13, 9), Vec(1, 1)}

\* the stores: at most one row per fabric and chunk type (chunk_id is unique),
\* every row referencing a fabric (fabric_id is a foreign key)
Stores ==
    UNION {
        {{[fabric_id |-> k[1], chunk_type |-> k[2], embedding |-> e[k]] : k \in keys}
            : e \in [keys -> StoredEmbeddings]}
        : keys \in SUBSET (FabricIds \X DbChunkTypes)}

\* pgvector's a <=> b: the cosine distance, 1 - cosine similarity
CosineDistance(a, b) == 100 - CosineSimilarity(a, b)

\* FROM fabrics f JOIN fabric_embeddings fe ON f.id = fe.fabric_id
\* WHERE 1 - (fe.embedding <=> :embedding) >= :threshold
\* a NULL embedding makes the condition NULL and the row is left out
WhereRows(rows, q, threshold) ==
    {r \in rows :
        /\ r.fabric_id \in FabricIds
        /\ r.embedding # None
        /\ 100 - CosineDistance(r.embedding, q) >= threshold}

\* a store that keeps, of each fabric, the row farthest from the query
DistinctOnWorst(rows, q, f) ==
    LET mine == {r \in rows : r.fabric_id = f}
        first == CHOOSE r \in mine : \A r2 \in mine :
                     CosineDistance(r.embedding, q) >= CosineDistance(r2.embedding, q)
    IN  [id |-> f, similarity |-> 100 - CosineDistance(first.embedding, q)]

\* SELECT DISTINCT ON (f.id) f.*, 1 - (fe.embedding <=> :embedding) AS similarity
\* ... ORDER BY f.id, fe.embedding <=> :embedding
\* of the rows of fabric f, the first in ascending distance is kept
DistinctOn(rows, q, f) ==
    LET mine == {r \in rows : r.fabric_id = f}
        first == CHOOSE r \in mine : \A r2 \in mine :
                     CosineDistance(r.embedding, q) <= CosineDistance(r2.embedding, q)
    IN  [id |-> f, similarity |-> 100 - CosineDistance(first.embedding, q)]

\* ORDER BY f.id: the kept rows, one per fabric, in ascending f.id
RECURSIVE OrderByFabricId(_, _, _)
OrderByFabricId(rows, q, ids) ==
    IF ids = {} THEN <<>>
    ELSE LET f == CHOOSE x \in ids : \A y \in ids : x <= y
         IN  <<DistinctOn(rows, q, f)>> \o OrderByFabricId(rows, q, ids \ {f})

\* the whole statement, LIMIT :limit applied last
SelectFabrics(rows, q, limit, threshold) ==
    LET kept == WhereRows(rows, q, threshold)
    IN  Slice(OrderByFabricId(kept, q, {r.fabric_id : r \in kept}), limit)

\* search_fabrics_by_vector: the statement's rows turned into
\* (Fabric, float(similarity)) pairs in the order the store gave them; an
\* exception of the store leaves through get_session
SearchFabricsByVector(store, rows, q, limit, threshold) ==
    IF store = "error" THEN [value |-> <<>>, raised |-> TRUE]
    ELSE [value |-> SelectFabrics(rows, q, limit, threshold), raised |-> FALSE]

DbIdle == [op |-> "idle"]

DbNothing == [value |-> <<>>, raised |-> FALSE]

DbInit ==
    /\ fabric_embeddings \in Stores
    /\ db_call = DbIdle
    /\ db_results = DbNothing

search_fabrics_by_vector ==
    /\ db_call = DbIdle
    /\ \E store \in {"ok", "error"}, q \in QueryVectors, limit \in 0..MaxLimit,
          threshold \in {RAG_SIMILARITY_THRESHOLD, RECOMMEND_THRESHOLD} :
          /\ db_call' = [op |-> "search_fabrics_by_vector", store |-> store,
                         query |-> q, limit |-> limit, threshold |-> threshold]
          /\ db_results' = SearchFabricsByVector(store, fabric_embeddings, q,
                                                 limit, threshold)
    /\ UNCHANGED fabric_embeddings

DbNext == search_fabrics_by_vector /\ UNCHANGED <<search_vars, embed_vars, rag_vars, ingest_vars, outfit_vars, record_vars>>

(***************************************************************************)
(* The retrieval query builders: OutfitGenerator._find_suitable_fabrics    *)
(* and the /recommend endpoint                                             *)
(***************************************************************************)
\* a text field of the preference object: <<>> is None (or a missing key),
\* <<"">> the empty string, <<t>> the text t
Truthy(field) == field # <<>> /\ field[1] # ""

\* f"{field}": None is rendered as the text None
Format(field) == IF field = <<>> THEN "None" ELSE field[1]

\* sep.join(items)
RECURSIVE Join(_, _)
Join(sep, items) ==
    IF items = <<>> THEN ""
    ELSE IF Len(items) = 1 THEN items[1]
    ELSE items[1] \o sep \o Join(sep, Tail(items))

\* a list field (None and [] are both falsy and both modelled as <<>>)
Segment(items, word) == <<Join(", ", items) \o " " \o word>>

IfPresent(items, word) == IF items # <<>> THEN Segment(items, word) ELSE <<>>

\* _find_suitable_fabrics, "Build search query": occasion and season always,
\* then color, pattern, style when present
FindQuery(p) ==
    Join(" ",
        <<Format(p.occasion) \o " occasion", Format(p.season) \o " season">>
        \o IfPresent(p.color_preferences, "color")
        \o IfPresent(p.pattern_preferences, "pattern")
        \o IfPresent(p.style_preferences, "style"))

\* recommend_fabrics, "Build query from preferences": each of occasion,
\* season, style, color, pattern when data.get(...) is truthy
RecommendQuery(p) ==
    Join(" ",
        (IF Truthy(p.occasion) THEN <<Format(p.occasion) \o " occasion">> ELSE <<>>)
        \o (IF Truthy(p.season) THEN <<Format(p.season) \o " season">> ELSE <<>>)
        \o IfPresent(p.style_preferences, "style")
        \o IfPresent(p.color_preferences, "color")
        \o IfPresent(p.pattern_preferences, "pattern"))

\* the fabric codes of the records selected from the fabrics document: those
\* whose code is among the hits, in the order of the document
RECURSIVE FilterByCodes(_, _, _)
FilterByCodes(doc, codes, i) ==
    IF i > Len(doc) THEN <<>>
    ELSE (IF doc[i] \in codes THEN <<[fabric_code |-> doc[i], record |-> i]>>
          ELSE <<>>)
         \o FilterByCodes(doc, codes, i + 1)

\* _find_suitable_fabrics after the query is built; hits holds the search
\* results, fabrics the list returned
FindSuitableFabrics(processed, fabrics, outcome, q) ==
    LET cs == processed.chunks
        hits == SimilaritySearchResult(outcome, q,
                    [i \in 1..Len(cs) |-> cs[i].embedding], <<FIND_TOP_K>>)
        codes == {cs[hits[i].chunk].fabric_code : i \in 1..Len(hits)}
    IN  IF ~processed.exists THEN [hits |-> <<>>, fabrics |-> <<>>]
        ELSE IF cs = <<>> \/ cs[1].embedding = None
             THEN [hits |-> <<>>, fabrics |-> <<>>]
        ELSE IF hits = <<>> THEN [hits |-> <<>>, fabrics |-> <<>>]
        ELSE IF ~fabrics.exists THEN [hits |-> hits, fabrics |-> <<>>]
        ELSE [hits |-> hits,
              fabrics |-> Slice(FilterByCodes(fabrics.fabrics, codes, 1),
                                FIND_MAX_FABRICS)]

\* recommend_fabrics: the response; a failing service or store is answered 500
RecommendFabrics(p, limit, outcome, q, rows) ==
    LET found == SearchFabricsByVector(IF outcome.service = "ok" THEN "ok" ELSE "error",
                     rows, q, IF limit = <<>> THEN RECOMMEND_LIMIT ELSE limit[1],
                     RECOMMEND_THRESHOLD)
    IN  IF found.raised
        THEN [status |-> 500, query |-> RecommendQuery(p), recommendations |-> <<>>]
        ELSE [status |-> 200, query |-> RecommendQuery(p),
              recommendations |-> found.value]

TextFields == {<<>>, <<"">>}

Preferences ==
    [occasion : TextFields \cup {<<"wedding">>},
     season : TextFields \cup {<<"summer">>},
     style_preferences : {<<>>, <<"classic">>, <<"classic", "elegant">>},
     color_preferences : {<<>>, <<"navy">>},
     pattern_preferences : {<<>>, <<"striped">>}]

\* the code of the chunk at position i of the processed document
FindCodes == <<"A", "B", "C", "D">>

CodeAt(i) == FindCodes[((i - 1) % Len(FindCodes)) + 1]

\* processed documents: chunk i belongs to fabric CodeAt(i), but the second
\* chunk may also belong to the first fabric; each with or without embedding
ProcessedChunks ==
    UNION {
        {[i \in 1..n |-> [fabric_code |-> IF i = 2 /\ second THEN CodeAt(1) ELSE CodeAt(i),
                          embedding |-> e[i]]]
            : e \in [1..n -> {None, Vec(1, 0), Vec(13, 9)}], second \in BOOLEAN}
        : n \in 0..MaxFindChunks}

ProcessedDocs ==
    {[exists |-> FALSE, chunks |-> <<>>]}
    \cup {[exists |-> TRUE, chunks |-> cs] : cs \in ProcessedChunks}

\* fabrics documents: any list of fabric codes (ingestion does not deduplicate)
FabricsDocs ==
    {[exists |-> FALSE, fabrics |-> <<>>]}
    \cup {[exists |-> TRUE, fabrics |-> fs] :
            fs \in UNION {[1..n -> {FindCodes[k] : k \in 1..Len(FindCodes)}]
                            : n \in 0..MaxDocFabrics}}

RagIdle == [op |-> "idle"]

RagNothing == [query |-> "", hits |-> <<>>, fabrics |-> <<>>, status |-> 0]

find_suitable_fabrics ==
    /\ rag_call = RagIdle
    /\ \E outcome \in SearchOutcomes, q \in QueryVectors :
          LET out == FindSuitableFabrics(processed_doc, fabrics_doc, outcome, q)
          IN  /\ rag_call' = [op |-> "_find_suitable_fabrics", outcome |-> outcome,
                              query |-> q, limit |-> <<>>]
              /\ rag_return' = [query |-> FindQuery(prefs), hits |-> out.hits,
                                fabrics |-> out.fabrics, status |-> 0]
    /\ UNCHANGED <<prefs, processed_doc, fabrics_doc>>

recommend_fabrics ==
    /\ rag_call = RagIdle
    /\ \E outcome \in {o \in SearchOutcomes : o.configured}, q \in QueryVectors,
          limit \in {<<>>} \cup {<<k>> : k \in 0..MaxLimit} :
          LET out == RecommendFabrics(prefs, limit, outcome, q, fabric_embeddings)
          IN  /\ rag_call' = [op |-> "recommend_fabrics", outcome |-> outcome,
                              query |-> q, limit |-> limit]
              /\ rag_return' = [query |-> out.query, hits |-> out.recommendations,
                                fabrics |-> <<>>, status |-> out.status]
    /\ UNCHANGED <<prefs, processed_doc, fabrics_doc>>

\* the builders on every preference object, over one small index
QueryInit ==
    /\ prefs \in Preferences
    /\ processed_doc \in {d \in ProcessedDocs :
            /\ Len(d.chunks) <= 1
            /\ \A i \in 1..Len(d.chunks) : d.chunks[i].embedding = Vec(1, 0)}
    /\ fabrics_doc \in {d \in FabricsDocs :
            /\ Len(d.fabrics) <= 1
            /\ \A i \in 1..Len(d.fabrics) : d.fabrics[i] = CodeAt(1)}
    /\ fabric_embeddings \in {st \in Stores :
            \A r \in st : /\ r.fabric_id = 1
                          /\ r.chunk_type = "characteristics"
                          /\ r.embedding = Vec(1, 0)}
    /\ db_call = DbIdle
    /\ db_results = DbNothing
    /\ rag_call = RagIdle
    /\ rag_return = RagNothing

\* the retrieval on every pair of documents, for one preference object
FindInit ==
    /\ prefs = [occasion |-> <<"wedding">>, season |-> <<"summer">>,
                style_preferences |-> <<"classic">>,
                color_preferences |-> <<"navy">>, pattern_preferences |-> <<>>]
    /\ processed_doc \in ProcessedDocs
    /\ fabrics_doc \in FabricsDocs
    /\ rag_call = RagIdle
    /\ rag_return = RagNothing

QueryNext ==
    \/ find_suitable_fabrics /\ UNCHANGED <<search_vars, embed_vars, db_vars, ingest_vars, outfit_vars, record_vars>>
    \/ recommend_fabrics /\ UNCHANGED <<search_vars, embed_vars, db_vars, ingest_vars, outfit_vars, record_vars>>

FindNext == find_suitable_fabrics /\ UNCHANGED <<search_vars, embed_vars, db_vars, ingest_vars, outfit_vars, record_vars>>

(***************************************************************************)
(* DatabaseManager.save_fabric, save_fabrics_batch, get_session            *)
(*                                                                         *)
(* Each writer runs one call in its own session.  A session that met an    *)
(* error in flush or commit is inactive until rollback() is called on it:  *)
(* every later use raises.  Transactions are READ COMMITTED: a query sees  *)
(* the committed rows, an INSERT waits for an uncommitted row of the same  *)
(* key and fails on a committed one.                                       *)
(***************************************************************************)
Writers == {"w1", "w2"}

SaveCodes == {"A", "B"}

\* a weight the CHECK accepts and one it rejects
GoodWeight == 300
BadWeight == 0

\* the FabricData records writer w may pass: name tells whose record it is
SaveData(w) ==
    {[fabric_code |-> c, name |-> w, weight |-> GoodWeight] : c \in SaveCodes}
    \cup {[fabric_code |-> "A", name |-> w, weight |-> BadWeight]}

SaveInputs(w) == UNION {[1..n -> SaveData(w)] : n \in 0..MaxSaves}

\* Fabric.id: uuid4, a fresh value for every row created
NewFabricId(w, i) == <<w, i>>

\* Fabric.weight: CheckConstraint('weight > 0')
CheckViolation(d) == d.weight <= 0

\* a table without the unique index on fabric_code
NoUniqueIndex(rows, code) == FALSE

\* Fabric.fabric_code: unique=True
UniqueViolation(rows, code) == \E r \in rows : r.fabric_code = code

\* sess.query(Fabric).filter_by(fabric_code=...).first(): the id of a committed
\* row of that code, <<>> when there is none
ExistingFabric(rows, code) ==
    IF \E r \in rows : r.fabric_code = code
    THEN (CHOOSE r \in rows : r.fabric_code = code).id
    ELSE <<>>

\* the row _save builds from the FabricData
FabricRow(id, d) ==
    [id |-> id, fabric_code |-> d.fabric_code, name |-> d.name, weight |-> d.weight]

\* the for loop moves to the next record, or the with block is left
NextRecord(s) ==
    [s EXCEPT !.i = s.i + 1,
              !.pc = IF s.i + 1 > Len(s.input) THEN "exit" ELSE "query",
              !.existing = <<>>,
              !.pending = {}]

\* an exception leaves _save.  save_fabrics_batch logs it and continues with
\* the same session; in save_fabric it leaves the with block of get_session,
\* which rolls back and raises it again
SaveRaised(s, inactive) ==
    IF s.op \in {"save_fabrics_batch", "save_embeddings_batch"}
    THEN [NextRecord(s) EXCEPT !.inactive = inactive, !.failed = s.failed \cup {s.i}]
    ELSE [s EXCEPT !.pc = "done", !.status = "raised", !.inactive = FALSE,
                   !.existing = <<>>, !.pending = {}, !.failed = s.failed \cup {s.i}]

\* a session before its call starts
NewSession(op, input) ==
    [op |-> op, input |-> input, i |-> 1,
     pc |-> IF Len(input) = 0 THEN "exit" ELSE "query",
     existing |-> <<>>, pending |-> {}, inactive |-> FALSE,
     count |-> 0, failed |-> {}, status |-> "running"]

SaveCalls(w) ==
    {NewSession("save_fabrics_batch", in) : in \in SaveInputs(w)}
    \cup {NewSession("save_fabric", in) : in \in {x \in SaveInputs(w) : Len(x) = 1}}

\* the rows stored before the writers start
StoredFabrics ==
    {{}, {[id |-> <<"w0", 1>>, fabric_code |-> "A", name |-> "w0", weight |-> GoodWeight]}}

SaveInit ==
    /\ fabrics_table \in StoredFabrics
    /\ sessions \in {f \in [Writers -> UNION {SaveCalls(w) : w \in Writers}] :
                        \A w \in Writers : f[w] \in SaveCalls(w)}

\* _save, first statement: the query for the existing row
save_fabric_query(w) ==
    LET s == sessions[w]
        d == s.input[s.i]
    IN  /\ s.pc = "query"
        /\ sessions' = [sessions EXCEPT ![w] =
              IF s.inactive THEN SaveRaised(s, TRUE)
              ELSE LET e == ExistingFabric(fabrics_table, d.fabric_code)
                   IN  [s EXCEPT !.existing = e,
                                 !.pc = IF e = <<>> THEN "flush" ELSE "commit"]]
        /\ UNCHANGED fabrics_table

\* _save, not existing: sess.add(fabric); sess.flush() sends the INSERT
save_fabric_flush(w) ==
    LET s == sessions[w]
        d == s.input[s.i]
    IN  /\ s.pc = "flush"
        /\ \A v \in Writers \ {w} :
              \A r \in sessions[v].pending : r.fabric_code # d.fabric_code
        /\ sessions' = [sessions EXCEPT ![w] =
              IF CheckViolation(d) \/ UniqueViolation(fabrics_table, d.fabric_code)
              THEN SaveRaised(s, TRUE)
              ELSE [s EXCEPT !.pending = {FabricRow(NewFabricId(w, s.i), d)},
                             !.pc = "commit"]]
        /\ UNCHANGED fabrics_table

\* _save: sess.commit() sends the UPDATE of the existing row, or makes the
\* inserted row visible
save_fabric_commit(w) ==
    LET s == sessions[w]
        d == s.input[s.i]
    IN  /\ s.pc = "commit"
        /\ IF s.existing # <<>> /\ CheckViolation(d)
           THEN /\ sessions' = [sessions EXCEPT ![w] = SaveRaised(s, TRUE)]
                /\ UNCHANGED fabrics_table
           ELSE /\ fabrics_table' =
                      IF s.existing # <<>>
                      THEN {r \in fabrics_table : r.id # s.existing}
                           \cup {FabricRow(s.existing, d)}
                      ELSE fabrics_table \cup s.pending
                /\ sessions' = [sessions EXCEPT ![w] =
                      [NextRecord(s) EXCEPT !.count = s.count + 1]]

\* get_session, after the with block: session.commit(), which raises on an
\* inactive session; then rollback, raise, close
save_fabrics_exit(w) ==
    LET s == sessions[w]
    IN  /\ s.pc = "exit"
        /\ sessions' = [sessions EXCEPT ![w] =
              [s EXCEPT !.pc = "done", !.inactive = FALSE,
                        !.status = IF s.inactive THEN "raised" ELSE "returned"]]
        /\ UNCHANGED fabrics_table

SaveNext ==
    \/ \E w \in Writers : save_fabric_query(w) /\ UNCHANGED OtherThanSave
    \/ \E w \in Writers : save_fabric_flush(w) /\ UNCHANGED OtherThanSave
    \/ \E w \in Writers : save_fabric_commit(w) /\ UNCHANGED OtherThanSave
    \/ \E w \in Writers : save_fabrics_exit(w) /\ UNCHANGED OtherThanSave

(***************************************************************************)
(* DatabaseManager.save_embedding, save_embeddings_batch                   *)
(***************************************************************************)
\* the FabricChunk objects writer w may pass: chunks of the stored fabric A
\* and one of a fabric that is not stored; content tells whose chunk it is
WriteChunks(w) ==
    {[fabric_code |-> "A", chunk_id |-> "A_characteristics",
      chunk_type |-> "characteristics", content |-> w],
     [fabric_code |-> "A", chunk_id |-> "A_visual",
      chunk_type |-> "visual", content |-> w],
     [fabric_code |-> "B", chunk_id |-> "B_characteristics",
      chunk_type |-> "characteristics", content |-> w]}

WriteInputs(w) == UNION {[1..n -> WriteChunks(w)] : n \in 0..MaxWriteChunks}

\* sess.query(FabricEmbedding).filter_by(chunk_id=...).first(): whether a
\* committed row has that chunk_id
ExistingEmbedding(rows, chunk_id) == \E r \in rows : r.chunk_id = chunk_id

\* the row _save builds from the chunk
EmbeddingRow(fabric_id, c) ==
    [fabric_id |-> fabric_id, chunk_id |-> c.chunk_id,
     chunk_type |-> c.chunk_type, content |-> c.content]

WriteCalls(w) == {NewSession("save_embeddings_batch", in) : in \in WriteInputs(w)}

WriteInit ==
    /\ fabrics_table = {[id |-> <<"w0", 1>>, fabric_code |-> "A", name |-> "w0",
                         weight |-> GoodWeight]}
    /\ sessions = <<>>
    /\ embeddings_table = {}
    /\ embedding_sessions \in
          {f \in [Writers -> UNION {WriteCalls(w) : w \in Writers}] :
              \A w \in Writers : f[w] \in WriteCalls(w)}

\* _save: the queries for the fabric and for the existing row.  A missing
\* fabric raises ValueError before anything is sent to the store
save_embedding_query(w) ==
    LET s == embedding_sessions[w]
        c == s.input[s.i]
    IN  /\ s.pc = "query"
        /\ embedding_sessions' = [embedding_sessions EXCEPT ![w] =
              IF s.inactive THEN SaveRaised(s, TRUE)
              ELSE IF ExistingFabric(fabrics_table, c.fabric_code) = <<>>
              THEN SaveRaised(s, FALSE)
              ELSE [s EXCEPT !.existing =
                                IF ExistingEmbedding(embeddings_table, c.chunk_id)
                                THEN <<c.chunk_id>> ELSE <<>>,
                             !.pc = "commit"]]
        /\ UNCHANGED <<fabrics_table, sessions, embeddings_table>>

\* _save: sess.commit() sends the UPDATE of the existing row, or the INSERT,
\* which fails on a chunk_id stored since the query (unique=True)
save_embedding_commit(w) ==
    LET s == embedding_sessions[w]
        c == s.input[s.i]
        row == EmbeddingRow(ExistingFabric(fabrics_table, c.fabric_code), c)
    IN  /\ s.pc = "commit"
        /\ IF s.existing = <<>> /\ ExistingEmbedding(embeddings_table, c.chunk_id)
           THEN /\ embedding_sessions' =
                      [embedding_sessions EXCEPT ![w] = SaveRaised(s, TRUE)]
                /\ UNCHANGED embeddings_table
           ELSE /\ embeddings_table' =
                      {r \in embeddings_table : r.chunk_id # c.chunk_id} \cup {row}
                /\ embedding_sessions' = [embedding_sessions EXCEPT ![w] =
                      [NextRecord(s) EXCEPT !.count = s.count + 1]]
        /\ UNCHANGED <<fabrics_table, sessions>>

\* get_session, after the with block of save_embeddings_batch
save_embeddings_exit(w) ==
    LET s == embedding_sessions[w]
    IN  /\ s.pc = "exit"
        /\ embedding_sessions' = [embedding_sessions EXCEPT ![w] =
              [s EXCEPT !.pc = "done", !.inactive = FALSE,
                        !.status = IF s.inactive THEN "raised" ELSE "returned"]]
        /\ UNCHANGED <<fabrics_table, sessions, embeddings_table>>

WriteNext ==
    \/ \E w \in Writers : save_embedding_query(w) /\ UNCHANGED OtherThanStore
    \/ \E w \in Writers : save_embedding_commit(w) /\ UNCHANGED OtherThanStore
    \/ \E w \in Writers : save_embeddings_exit(w) /\ UNCHANGED OtherThanStore

(***************************************************************************)
(* str.lower, str.title, str.replace, str.join on the texts of the model   *)
(***************************************************************************)
LowerCase == "abcdefghijklmnopqrstuvwxyz"
UpperCase == "ABCDEFGHIJKLMNOPQRSTUVWXYZ"

\* the position of the one-character text c in the alphabet, 0 when not in it
LetterIndex(alphabet, c) ==
    IF \E k \in 1..Len(alphabet) : SubSeq(alphabet, k, k) = c
    THEN CHOOSE k \in 1..Len(alphabet) : SubSeq(alphabet, k, k) = c
    ELSE 0

IsLetter(c) == LetterIndex(LowerCase, c) > 0 \/ LetterIndex(UpperCase, c) > 0

ToLower(c) ==
    IF LetterIndex(UpperCase, c) > 0
    THEN LET k == LetterIndex(UpperCase, c) IN SubSeq(LowerCase, k, k)
    ELSE c

ToUpper(c) ==
    IF LetterIndex(LowerCase, c) > 0
    THEN LET k == LetterIndex(LowerCase, c) IN SubSeq(UpperCase, k, k)
    ELSE c

\* s.lower()
RECURSIVE Lower(_)
Lower(s) ==
    IF Len(s) = 0 THEN ""
    ELSE ToLower(SubSeq(s, 1, 1)) \o Lower(SubSeq(s, 2, Len(s)))

\* s.title(): a letter after a non-letter is upper case, any other lower case
RECURSIVE TitleFrom(_, _)
TitleFrom(s, i) ==
    IF i > Len(s) THEN ""
    ELSE LET c == SubSeq(s, i, i)
             first == i = 1 \/ ~IsLetter(SubSeq(s, i - 1, i - 1))
         IN  (IF first THEN ToUpper(c) ELSE ToLower(c)) \o TitleFrom(s, i + 1)

Title(s) == TitleFrom(s, 1)

\* s.replace('_', to)
RECURSIVE ReplaceUnderscore(_, _)
ReplaceUnderscore(s, to) ==
    IF Len(s) = 0 THEN ""
    ELSE (IF SubSeq(s, 1, 1) = "_" THEN to ELSE SubSeq(s, 1, 1))
         \o ReplaceUnderscore(SubSeq(s, 2, Len(s)), to)

(***************************************************************************)
(* FABRIC_WEIGHTS, FabricProcessor._categorize_weight,                     *)
(* FabricProcessor._infer_seasons_from_weight                              *)
(***************************************************************************)
\* the dict, in insertion order
FABRIC_WEIGHTS ==
    <<[category |-> "lightweight", min |-> 0, max |-> 250,
       seasons |-> <<"spring", "summer">>],
      [category |-> "medium", min |-> 250, max |-> 350,
       seasons |-> <<"spring", "fall">>],
      [category |-> "heavyweight", min |-> 350, max |-> 600,
       seasons |-> <<"fall", "winter">>]>>

\* a band test that takes the upper limit in
InBandClosed(w, props) == props.min <= w /\ w <= props.max

\* props['min'] <= weight < props['max']
InBand(w, props) == props.min <= w /\ w < props.max

\* the first band, in dict order, that holds the weight; 0 when none does
FirstBand(w) ==
    IF \E k \in 1..Len(FABRIC_WEIGHTS) : InBand(w, FABRIC_WEIGHTS[k])
    THEN CHOOSE k \in 1..Len(FABRIC_WEIGHTS) :
            /\ InBand(w, FABRIC_WEIGHTS[k])
            /\ \A j \in 1..(k - 1) : ~InBand(w, FABRIC_WEIGHTS[j])
    ELSE 0

\* the titles of the categories, computed once
CategoryTitles == [k \in 1..Len(FABRIC_WEIGHTS) |-> Title(FABRIC_WEIGHTS[k].category)]

\* _categorize_weight: category.title() of the first band, else "Unknown"
CategorizeWeight(w) ==
    IF FirstBand(w) = 0 THEN "Unknown" ELSE CategoryTitles[FirstBand(w)]

\* _infer_seasons_from_weight: props['seasons'] of the first band, else []
InferSeasonsFromWeight(w) ==
    IF FirstBand(w) = 0 THEN <<>> ELSE FABRIC_WEIGHTS[FirstBand(w)].seasons

\* the weights asked about: every band and a margin on both sides
Weights == (0 - WeightMargin)..(FABRIC_WEIGHTS[3].max + WeightMargin)

WeightInit == weight \in Weights /\ weight_result = <<>>

categorize_weight ==
    /\ weight_result = <<>>
    /\ weight_result' = <<"_categorize_weight", CategorizeWeight(weight)>>
    /\ UNCHANGED weight

infer_seasons_from_weight ==
    /\ weight_result = <<>>
    /\ weight_result' = <<"_infer_seasons_from_weight", InferSeasonsFromWeight(weight)>>
    /\ UNCHANGED weight

WeightNext ==
    \/ categorize_weight /\ UNCHANGED OtherThanWeight
    \/ infer_seasons_from_weight /\ UNCHANGED OtherThanWeight

(***************************************************************************)
(* FabricProcessor._create_fabric_chunks and the builders it calls         *)
(*                                                                         *)
(* An Optional[str] field is <<>> for None and <<t>> for the text t; an    *)
(* Optional[int] is <<>> or <<n>>; a list is a sequence.                   *)
(***************************************************************************)
\* config/fabric_config.py, the occasions of each category
FABRIC_CATEGORIES ==
    [ceremony |-> <<"wedding", "formal_event", "gala">>,
     business |-> <<"business", "office", "professional">>,
     casual |-> <<"casual", "smart_casual", "weekend">>,
     seasonal |-> <<"varied">>]

FABRIC_COMPOSITIONS ==
    <<"wool", "cotton", "linen", "silk", "polyester", "wool_blend",
      "cotton_blend", "cashmere", "mohair", "alpaca", "viscose", "synthetic">>

FABRIC_PATTERNS ==
    <<"solid", "striped", "checked", "plaid", "herringbone", "houndstooth",
      "pinstripe", "windowpane", "birdseye", "twill", "textured">>

FABRIC_FINISHES ==
    <<"matte", "shiny", "semi_gloss", "brushed", "smooth", "textured",
      "velvet", "satin">>

\* sub in text
TextIn(sub, text) ==
    \/ Len(sub) = 0
    \/ \E i \in 1..(Len(text) - Len(sub) + 1) : SubSeq(text, i, i + Len(sub) - 1) = sub

\* field or ''
OrEmpty(field) == IF Truthy(field) THEN field[1] ELSE ""

\* f"{fabric.name or ''} {fabric.description or ''}".lower()
InferenceText(name, description) ==
    Lower(OrEmpty(name) \o " " \o OrEmpty(description))

\* a matcher that takes the last term of the vocabulary found in the text
LastMatch(vocabulary, text, joined) ==
    LET hit(k) == \/ TextIn(ReplaceUnderscore(vocabulary[k], " "), text)
                  \/ joined /\ TextIn(ReplaceUnderscore(vocabulary[k], ""), text)
    IN  IF \E k \in 1..Len(vocabulary) : hit(k)
        THEN LET k == CHOOSE k \in 1..Len(vocabulary) :
                          hit(k) /\ \A j \in (k + 1)..Len(vocabulary) : ~hit(j)
             IN  <<Title(ReplaceUnderscore(vocabulary[k], " "))>>
        ELSE <<>>

\* for term in vocabulary: if term.replace('_', ' ') in text (or, when joined,
\* term.replace('_', '') in text): return term.replace('_', ' ').title()
FirstMatch(vocabulary, text, joined) ==
    LET hit(k) == \/ TextIn(ReplaceUnderscore(vocabulary[k], " "), text)
                  \/ joined /\ TextIn(ReplaceUnderscore(vocabulary[k], ""), text)
    IN  IF \E k \in 1..Len(vocabulary) : hit(k)
        THEN LET k == CHOOSE k \in 1..Len(vocabulary) :
                          hit(k) /\ \A j \in 1..(k - 1) : ~hit(j)
             IN  <<Title(ReplaceUnderscore(vocabulary[k], " "))>>
        ELSE <<>>

\* the names and descriptions of the records of the model
BuildNames == {<<>>, <<"Plain Grey">>, <<"Pinstripe Wool">>, <<"Herringbone Checked">>}
BuildDescriptions == {<<>>, <<"Satin brushed cotton blend">>}

\* the three inferences, worked out once for every name and description
InferenceTable ==
    [n \in BuildNames, d \in BuildDescriptions |->
        LET text == InferenceText(n, d)
            pattern == FirstMatch(FABRIC_PATTERNS, text, TRUE)
            finish == FirstMatch(FABRIC_FINISHES, text, FALSE)
        IN  [composition |-> FirstMatch(FABRIC_COMPOSITIONS, text, TRUE),
             pattern |-> IF pattern = <<>> THEN <<"Solid">> ELSE pattern,
             finish |-> IF finish = <<>> THEN <<"Smooth">> ELSE finish]]

\* _infer_composition: the first composition found, else None
InferComposition(f) == InferenceTable[f.name, f.description].composition

\* _infer_pattern: the first pattern found, else "Solid"
InferPattern(f) == InferenceTable[f.name, f.description].pattern

\* _infer_finish: the first finish found, else "Smooth"
InferFinish(f) == InferenceTable[f.name, f.description].finish

\* a or b on Optional[str] values
Or(a, b) == IF Truthy(a) THEN a ELSE b

\* if fabric.weight: neither None nor 0
HasWeight(f) == f.weight # <<>> /\ f.weight[1] # 0

\* one element when the condition holds, none otherwise
When(cond, part) == IF cond THEN <<part>> ELSE <<>>

\* _build_characteristics_chunk
BuildCharacteristicsChunk(f) ==
    LET composition == Or(f.composition, InferComposition(f))
    IN  Join(" | ",
            <<"Fabric Code: " \o f.fabric_code>>
            \o When(Truthy(f.name), "Name: " \o OrEmpty(f.name))
            \o When(Truthy(composition), "Composition: " \o OrEmpty(composition))
            \o (IF HasWeight(f)
                THEN <<"Weight: " \o ToString(f.weight[1]) \o "g/m²",
                       "Weight Category: " \o CategorizeWeight(f.weight[1])>>
                ELSE <<>>)
            \o When(Truthy(f.description), "Description: " \o OrEmpty(f.description)))

\* _build_visual_chunk
BuildVisualChunk(f) ==
    LET pattern == Or(f.pattern, InferPattern(f))
        finish == InferFinish(f)
    IN  Join(" | ",
            <<"Fabric Code: " \o f.fabric_code>>
            \o When(Truthy(f.color), "Color: " \o OrEmpty(f.color))
            \o When(Truthy(pattern), "Pattern: " \o OrEmpty(pattern))
            \o When(Truthy(finish), "Finish: " \o OrEmpty(finish))
            \o When(f.image_urls # <<>>,
                    "Has " \o ToString(Len(f.image_urls)) \o " reference image(s)"))

\* _generate_style_recommendations
GenerateStyleRecommendations(f) ==
    LET pattern == Lower(OrEmpty(Or(f.pattern, InferPattern(f))))
    IN  Join(", ",
            (IF ~HasWeight(f) THEN <<>>
             ELSE IF f.weight[1] < 250 THEN <<"ideal for unlined or half-lined jackets">>
             ELSE IF f.weight[1] < 350 THEN <<"versatile for year-round suits">>
             ELSE <<"excellent for structured winter suits">>)
            \o (IF pattern \in {"striped", "pinstripe"}
                THEN <<"professional business look">>
                ELSE IF pattern \in {"checked", "plaid"}
                THEN <<"smart casual or country style">>
                ELSE IF pattern = "solid" THEN <<"timeless classic elegance">>
                ELSE <<>>))

\* the seasons the usage chunk writes: the record's, else those of the weight
UsageSeasons(f) ==
    IF f.season # <<>> THEN f.season
    ELSE IF HasWeight(f) THEN InferSeasonsFromWeight(f.weight[1])
    ELSE <<>>

\* _build_usage_chunk
BuildUsageChunk(f) ==
    LET style == GenerateStyleRecommendations(f)
    IN  Join(" | ",
            <<"Fabric Code: " \o f.fabric_code>>
            \o (IF f.season # <<>> THEN <<"Seasons: " \o Join(", ", f.season)>>
                ELSE When(UsageSeasons(f) # <<>>,
                          "Recommended Seasons: " \o Join(", ", UsageSeasons(f))))
            \o When(Truthy(f.category), "Category: " \o OrEmpty(f.category))
            \o When(Truthy(f.category) /\ OrEmpty(f.category) \in DOMAIN FABRIC_CATEGORIES,
                    "Suitable Occasions: "
                    \o Join(", ", FABRIC_CATEGORIES[OrEmpty(f.category)]))
            \o When(style # "", "Style Recommendations: " \o style))

\* _generate_care_instructions
GenerateCareInstructions(f) ==
    LET composition == Lower(OrEmpty(Or(f.composition, InferComposition(f))))
    IN  IF composition = "" THEN "Professional dry cleaning recommended"
        ELSE IF TextIn("wool", composition)
        THEN "Dry clean only, steam to remove wrinkles, store with moth protection"
        ELSE IF TextIn("linen", composition)
        THEN "Dry clean or gentle hand wash, iron while damp, store in breathable garment bag"
        ELSE IF TextIn("cotton", composition)
        THEN "Dry clean or machine wash cold, tumble dry low, iron as needed"
        ELSE IF TextIn("silk", composition)
        THEN "Dry clean only, avoid direct sunlight, store in cool dry place"
        ELSE "Dry clean recommended, follow care label instructions"

\* _assess_durability
AssessDurability(f) ==
    LET composition == Lower(OrEmpty(Or(f.composition, InferComposition(f))))
    IN  IF composition = "" THEN "Good"
        ELSE IF TextIn("wool", composition) /\ ~TextIn("blend", composition)
        THEN "Excellent - natural resilience and longevity"
        ELSE IF TextIn("polyester", composition) \/ TextIn("synthetic", composition)
        THEN "Very Good - wrinkle-resistant and durable"
        ELSE IF TextIn("linen", composition) THEN "Good - durable but prone to wrinkling"
        ELSE IF TextIn("cotton", composition) THEN "Good - comfortable but may wrinkle"
        ELSE "Good"

\* _build_technical_chunk
BuildTechnicalChunk(f) ==
    Join(" | ",
        <<"Fabric Code: " \o f.fabric_code>>
        \o (IF Truthy(f.care_instructions)
            THEN <<"Care: " \o OrEmpty(f.care_instructions)>>
            ELSE <<"Care Instructions: " \o GenerateCareInstructions(f)>>)
        \o When(Truthy(f.supplier), "Supplier: " \o OrEmpty(f.supplier))
        \o When(Truthy(f.origin), "Origin: " \o OrEmpty(f.origin))
        \o When(Truthy(f.stock_status), "Stock Status: " \o OrEmpty(f.stock_status))
        \o <<"Durability: " \o AssessDurability(f)>>)

\* _extract_metadata
ExtractMetadata(f, chunk_type) ==
    LET base == [fabric_code |-> f.fabric_code, chunk_type |-> chunk_type,
                 supplier |-> OrEmpty(Or(f.supplier, <<"Formens">>)),
                 scrape_date |-> f.scrape_date]
    IN  IF chunk_type = "characteristics"
        THEN [base |-> base, composition |-> f.composition, weight |-> f.weight,
              weight_category |-> IF HasWeight(f)
                                  THEN <<CategorizeWeight(f.weight[1])>> ELSE <<>>]
        ELSE IF chunk_type = "visual"
        THEN [base |-> base, color |-> f.color,
              pattern |-> Or(f.pattern, InferPattern(f)),
              has_images |-> f.image_urls # <<>>]
        ELSE IF chunk_type = "usage"
        THEN [base |-> base, seasons |-> UsageSeasons(f), category |-> f.category,
              occasions |-> IF Truthy(f.category)
                               /\ OrEmpty(f.category) \in DOMAIN FABRIC_CATEGORIES
                            THEN FABRIC_CATEGORIES[OrEmpty(f.category)] ELSE <<>>]
        ELSE [base |-> base, stock_status |-> f.stock_status, origin |-> f.origin]

\* an id that is the same for the four chunks of a record
ChunkIdCopied(code, chunk_type) == code \o "_characteristics"

\* f"{fabric.fabric_code}_{chunk_type}"
ChunkId(code, chunk_type) == code \o "_" \o chunk_type

\* the content of the chunk of each type
BuildChunk(f, chunk_type) ==
    IF chunk_type = "characteristics" THEN BuildCharacteristicsChunk(f)
    ELSE IF chunk_type = "visual" THEN BuildVisualChunk(f)
    ELSE IF chunk_type = "usage" THEN BuildUsageChunk(f)
    ELSE BuildTechnicalChunk(f)

\* FabricChunk(fabric_code, chunk_id, content, chunk_type, metadata): the
\* embedding keeps its default, None
NewFabricChunk(f, chunk_type) ==
    [fabric_code |-> f.fabric_code,
     chunk_id |-> ChunkId(f.fabric_code, chunk_type),
     content |-> BuildChunk(f, chunk_type),
     chunk_type |-> chunk_type,
     metadata |-> ExtractMetadata(f, chunk_type),
     embedding |-> None]

\* _create_fabric_chunks: the four builders in turn, a chunk appended for
\* each content that is not empty
CreateFabricChunksOf(f) ==
    SelectSeq([t \in 1..Len(ChunkTypes) |-> NewFabricChunk(f, ChunkTypes[t])],
              LAMBDA c : c.content # "")

\* the FabricData records of the model
BuildCodes == {"X1", "Y2"}

\* supplier (default "Formens"), origin and stock_status
TechnicalFields ==
    {[supplier |-> <<"Formens">>, origin |-> <<>>, stock_status |-> <<>>],
     [supplier |-> <<>>, origin |-> <<>>, stock_status |-> <<"in_stock">>],
     [supplier |-> <<"Loro">>, origin |-> <<"Italy">>, stock_status |-> <<>>]}

\* color and image_urls
VisualFields ==
    {[color |-> <<>>, image_urls |-> <<>>],
     [color |-> <<"Navy">>, image_urls |-> <<"u1", "u2">>]}

SeasonLists == {SubSeq(<<"winter", "fall", "spring">>, 1, n) : n \in 0..MaxSeasons}

FabricDataRecords ==
    {[fabric_code |-> code, name |-> name, composition |-> composition,
      weight |-> w, color |-> v.color, pattern |-> pattern, season |-> season,
      supplier |-> t.supplier, origin |-> t.origin, image_urls |-> v.image_urls,
      description |-> description, care_instructions |-> care,
      category |-> category, stock_status |-> t.stock_status,
      scrape_date |-> "2024-01-01T00:00:00"] :
        code \in BuildCodes, name \in BuildNames, description \in BuildDescriptions,
        composition \in {<<>>, <<"">>, <<"100% Linen">>},
        w \in {<<>>, <<0>>, <<200>>, <<300>>, <<600>>},
        pattern \in {<<>>, <<"">>, <<"Plaid">>},
        season \in SeasonLists,
        category \in {<<>>, <<"business">>, <<"outdoor">>},
        care \in {<<>>, <<"Hand wash">>},
        t \in TechnicalFields, v \in VisualFields}

BuildInit == fabric \in FabricDataRecords /\ built = <<>>

create_fabric_chunks ==
    /\ built = <<>>
    /\ built' = <<[op |-> "_create_fabric_chunks", record |-> fabric,
                   chunks |-> CreateFabricChunksOf(fabric)]>>
    /\ UNCHANGED fabric

BuildNext == create_fabric_chunks /\ UNCHANGED OtherThanBuild

(***************************************************************************)
(* OutfitGenerator._build_dalle_prompt and the helpers it calls            *)
(***************************************************************************)
\* occasion_map of _get_occasion_description
occasion_map ==
    [o \in {"wedding", "business", "formal_event", "gala", "casual",
            "smart_casual", "office", "weekend"} |->
        CASE o = "wedding" -> "elegant wedding attire, formal ceremony suit"
          [] o = "business" -> "professional business suit, corporate attire"
          [] o = "formal_event" -> "black-tie formal evening wear"
          [] o = "gala" -> "sophisticated gala evening suit"
          [] o = "casual" -> "smart casual tailored outfit"
          [] o = "smart_casual" -> "refined smart casual ensemble"
          [] o = "office" -> "modern office suit, business professional"
          [] o = "weekend" -> "relaxed weekend tailored look"]

\* season_map of _get_season_description
season_map ==
    [s \in {"spring", "summer", "fall", "winter"} |->
        CASE s = "spring" -> "spring/summer season, lighter construction"
          [] s = "summer" -> "summer season, breathable fabric, unlined or half-lined"
          [] s = "fall" -> "fall/autumn season, transitional weight"
          [] s = "winter" -> "winter season, warm and structured"]

\* occasion_map.get(occasion.lower(), f'{occasion} outfit')
GetOccasionDescription(occasion) ==
    IF Lower(occasion) \in DOMAIN occasion_map
    THEN occasion_map[Lower(occasion)]
    ELSE occasion \o " outfit"

\* season_map.get(season.lower(), '')
GetSeasonDescription(season) ==
    IF Lower(season) \in DOMAIN season_map THEN season_map[Lower(season)] ELSE ""

\* the weight word of _fabric_to_description
WeightWord(w) ==
    IF w < 250 THEN "lightweight"
    ELSE IF w < 350 THEN "medium-weight"
    ELSE "heavyweight"

\* _fabric_to_description
FabricToDescription(f) ==
    LET parts ==
            When(Truthy(f.composition), Lower(OrEmpty(f.composition)))
            \o (IF HasWeight(f) THEN <<WeightWord(f.weight[1])>> ELSE <<>>)
            \o When(Truthy(f.pattern), Lower(OrEmpty(f.pattern)))
            \o When(Truthy(f.color), Lower(OrEmpty(f.color)))
    IN  IF parts = <<>> THEN "premium " \o f.fabric_code \o " fabric"
        ELSE Join(" ", parts)

\* items[:n]
Take(items, n) == SubSeq(items, 1, IF Len(items) < n THEN Len(items) ELSE n)

\* the descriptions of all the fabrics of the list
AllFabricDescriptions(spec) ==
    SelectSeq([k \in 1..Len(spec.fabrics) |-> FabricToDescription(spec.fabrics[k])],
              LAMBDA desc : desc # "")

\* "Fabric details": the descriptions of spec.fabrics[:2] that are not empty
FabricDescriptions(spec) ==
    SelectSeq([k \in 1..Len(Take(spec.fabrics, 2)) |->
                    FabricToDescription(spec.fabrics[k])],
              LAMBDA desc : desc # "")

\* the first line of the prompt
PromptIntro == "Professional fashion photography of a complete men's tailored outfit,"

\* the last line of the prompt
PhotographyStyle ==
    "displayed on a mannequin or laid flat, studio lighting, "
    \o "high-end fashion photography, detailed texture visible, "
    \o "professional styling, luxury menswear aesthetic"

\* prompt_parts, as the appends leave it
PromptParts(spec) ==
    <<PromptIntro>>
    \o <<GetOccasionDescription(spec.occasion)>>
    \o When(spec.fabrics # <<>> /\ FabricDescriptions(spec) # <<>>,
            "made from " \o Join(", ", FabricDescriptions(spec)))
    \o When(spec.color_preferences # <<>>,
            "in " \o Join(", ", Take(spec.color_preferences, 3)) \o " tones")
    \o When(spec.pattern_preferences # <<>>,
            "with " \o Join(", ", Take(spec.pattern_preferences, 2)) \o " pattern")
    \o When(GetSeasonDescription(spec.season) # "",
            GetSeasonDescription(spec.season))
    \o When(spec.style_preferences # <<>>,
            Join(", ", Take(spec.style_preferences, 3)) \o " style")
    \o When(Truthy(spec.additional_notes), OrEmpty(spec.additional_notes))
    \o <<PhotographyStyle>>

\* ' '.join(prompt_parts)
AssembledPrompt(spec) == Join(" ", PromptParts(spec))

\* a cut that keeps 1000 characters and then appends the dots
TruncateLate(text) ==
    IF Len(text) > PROMPT_LIMIT THEN SubSeq(text, 1, PROMPT_LIMIT) \o "..." ELSE text

\* a cut that keeps the first 1000 characters and appends nothing
TruncateHard(text) ==
    IF Len(text) > PROMPT_LIMIT THEN SubSeq(text, 1, PROMPT_LIMIT) ELSE text

\* if len(prompt) > 1000: prompt = prompt[:997] + "..."
Truncate(text) ==
    IF Len(text) > PROMPT_LIMIT
    THEN SubSeq(text, 1, PROMPT_KEPT) \o "..."
    ELSE text

\* _build_dalle_prompt
BuildDallePrompt(spec) == Truncate(AssembledPrompt(spec))

\* a text of n characters
RECURSIVE Filler(_)
Filler(n) ==
    IF n <= 0 THEN ""
    ELSE IF n < 10 THEN SubSeq("0123456789", 1, n)
    ELSE "0123456789" \o Filler(n - 10)

\* the FabricData records of the prompt: the fields the assembler reads
WoolFabric ==
    [fabric_code |-> "X1", composition |-> <<"100% Wool">>, weight |-> <<280>>,
     pattern |-> <<"Pinstripe">>, color |-> <<"Navy">>]

LinenFabric ==
    [fabric_code |-> "Y2", composition |-> <<>>, weight |-> <<200>>,
     pattern |-> <<"">>, color |-> <<>>]

BareFabric ==
    [fabric_code |-> "Z3", composition |-> <<>>, weight |-> <<0>>,
     pattern |-> <<>>, color |-> <<>>]

FabricLists ==
    {<<>>, <<WoolFabric>>, <<BareFabric>>, <<BareFabric, LinenFabric>>,
     <<LinenFabric, WoolFabric, BareFabric>>}

\* an OutfitSpec; None and [] of a list field are both <<>>
OutfitSpec(occasion, season, style, color, pattern, fabrics, notes) ==
    [occasion |-> occasion, season |-> season, style_preferences |-> style,
     color_preferences |-> color, pattern_preferences |-> pattern,
     fabrics |-> fabrics, additional_notes |-> notes]

\* the spec with nothing optional in it
PlainSpec == OutfitSpec("wedding", "winter", <<>>, <<>>, <<>>, <<>>, <<>>)

\* the length of notes that brings PlainSpec's prompt to exactly the limit
NotesToLimit == PROMPT_LIMIT - Len(AssembledPrompt(PlainSpec)) - 1

\* additional_notes: None, '', a remark, and texts around and past the limit
PromptNotes ==
    {<<>>, <<"">>, <<"peak lapels, ticket pocket">>, <<Filler(PROMPT_LIMIT + 50)>>}
    \cup {<<Filler(n)>> : n \in (NotesToLimit - NoteMargin)..(NotesToLimit + NoteMargin)}

OutfitSpecs ==
    {OutfitSpec(occasion, season, style, color, pattern, fabrics, notes) :
        occasion \in {"wedding", "Business", "picnic"},
        season \in {"winter", "Summer", "monsoon"},
        style \in {<<>>, <<"classic">>, <<"modern", "bold", "sleek", "sharp">>},
        color \in {<<>>, <<"navy", "grey", "brown", "black">>},
        pattern \in {<<>>, <<"solid", "plaid", "check">>},
        fabrics \in FabricLists,
        notes \in PromptNotes}

PromptInit == outfit_spec \in OutfitSpecs /\ prompt = <<>>

build_dalle_prompt ==
    /\ prompt = <<>>
    /\ prompt' = <<[op |-> "_build_dalle_prompt",
                    parts |-> PromptParts(outfit_spec),
                    assembled |-> AssembledPrompt(outfit_spec),
                    text |-> BuildDallePrompt(outfit_spec)]>>
    /\ UNCHANGED outfit_spec

PromptNext == build_dalle_prompt /\ UNCHANGED OtherThanPrompt

(***************************************************************************)
(* The weight class of one fabric, as the prompt assembler, the style      *)
(* recommendation and the chunk builder's category each give it            *)
(***************************************************************************)
\* a FabricData record that has a code and a weight and nothing else
WeighedFabric(w) ==
    [fabric_code |-> "X1", name |-> <<>>, description |-> <<>>,
     composition |-> <<>>, weight |-> <<w>>, pattern |-> <<>>, color |-> <<>>]

\* the positive weights asked about: every band and a margin past the last
PositiveWeights == 1..(FABRIC_WEIGHTS[3].max + WeightMargin)

NoClasses == [described |-> <<>>, recommended |-> <<>>, categorized |-> <<>>]

ClassInit == class_weight \in PositiveWeights /\ classes = NoClasses

\* OutfitGenerator._fabric_to_description(fabric)
fabric_to_description ==
    /\ classes.described = <<>>
    /\ classes' = [classes EXCEPT
            !.described = <<FabricToDescription(WeighedFabric(class_weight))>>]
    /\ UNCHANGED class_weight

\* FabricProcessor._generate_style_recommendations(fabric)
generate_style_recommendations ==
    /\ classes.recommended = <<>>
    /\ classes' = [classes EXCEPT
            !.recommended = <<GenerateStyleRecommendations(WeighedFabric(class_weight))>>]
    /\ UNCHANGED class_weight

\* FabricProcessor._categorize_weight(fabric.weight) with
\* _infer_seasons_from_weight(fabric.weight), as the chunk builders call them
weight_category ==
    /\ classes.categorized = <<>>
    /\ classes' = [classes EXCEPT
            !.categorized = <<[category |-> CategorizeWeight(class_weight),
                               seasons |-> InferSeasonsFromWeight(class_weight)]>>]
    /\ UNCHANGED class_weight

ClassNext ==
    \/ fabric_to_description /\ UNCHANGED OtherThanClass
    \/ generate_style_recommendations /\ UNCHANGED OtherThanClass
    \/ weight_category /\ UNCHANGED OtherThanClass

(***************************************************************************)
(* OutfitGenerator.generate_outfit, generate_outfit_variants and           *)
(* _create_variant_spec                                                    *)
(***************************************************************************)
\* style_variants of _create_variant_spec
style_variants ==
    <<<<"classic", "timeless">>, <<"modern", "contemporary">>, <<"bold", "distinctive">>>>

\* _create_variant_spec: a copy of the base without its fabrics, its style
\* replaced when variant_index < len(style_variants) (the index counts from 0)
CreateVariantSpec(base, variant_index) ==
    LET variant ==
            OutfitSpec(base.occasion, base.season,
                       IF base.style_preferences # <<>>
                       THEN base.style_preferences ELSE <<>>,
                       IF base.color_preferences # <<>>
                       THEN base.color_preferences ELSE <<>>,
                       IF base.pattern_preferences # <<>>
                       THEN base.pattern_preferences ELSE <<>>,
                       <<>>,
                       base.additional_notes)
    IN  IF variant_index < Len(style_variants)
        THEN [variant EXCEPT !.style_preferences = style_variants[variant_index + 1]]
        ELSE variant

\* [f.fabric_code for f in spec.fabrics] if spec.fabrics else []
CodesUsed(fabrics) == [k \in 1..Len(fabrics) |-> fabrics[k].fabric_code]

\* one run of generate_outfit on a spec: `configured` is whether there is an
\* openai_client, `found` what _find_suitable_fabrics returns when it is
\* called, `generated` whether the image calls and the metadata write went
\* through.  It gives the spec as the run leaves it, the calls made in order
\* and the outfit returned (none is <<>>).
GenerateOutfit(spec, use_rag, configured, found, generated) ==
    IF ~configured THEN [spec |-> spec, calls |-> <<>>, outfit |-> <<>>]
    ELSE
        LET retrieve == spec.fabrics = <<>> /\ use_rag
            resolved == IF retrieve THEN [spec EXCEPT !.fabrics = found] ELSE spec
            dalle_prompt == BuildDallePrompt(resolved)
        IN  [spec |-> resolved,
             calls |-> When(retrieve, "_find_suitable_fabrics")
                       \o <<"_build_dalle_prompt", "images.generate">>,
             outfit |-> When(generated,
                             [spec |-> resolved,
                              fabrics_used |-> CodesUsed(resolved.fabrics),
                              dalle_prompt |-> dalle_prompt])]

\* what _find_suitable_fabrics may hand back: nothing, or fabrics of the files
FoundFabrics == {<<>>, <<BareFabric, LinenFabric>>}

\* the specs the generator is called with
GenerateSpecs ==
    {OutfitSpec("wedding", season, style, color, <<>>, fabrics, <<>>) :
        season \in {"summer", "monsoon"},
        style \in {<<>>, <<"classic", "timeless">>, <<"rustic">>},
        color \in {<<>>, <<"navy">>},
        fabrics \in {<<>>, <<WoolFabric>>, <<LinenFabric, WoolFabric, BareFabric>>}}

GenerationIdle ==
    [op |-> "idle", given |-> <<>>, num_variants |-> 0, i |-> 0, pc |-> "idle",
     calls |-> <<>>, variants |-> <<>>, outfits |-> <<>>]

GenerateInit == base_spec \in GenerateSpecs /\ generation = GenerationIdle

\* await generate_outfit(spec, use_rag): the caller's spec object is the one
\* whose fabrics are assigned
generate_outfit ==
    /\ generation.op = "idle"
    /\ \E use_rag \in BOOLEAN, configured \in BOOLEAN,
          found \in FoundFabrics, generated \in BOOLEAN :
            LET run == GenerateOutfit(base_spec, use_rag, configured, found, generated)
            IN  /\ base_spec' = run.spec
                /\ generation' = [generation EXCEPT
                        !.op = "generate_outfit", !.given = <<base_spec>>,
                        !.pc = "done", !.calls = run.calls, !.outfits = run.outfit]

\* generate_outfit_variants(spec, num_variants): variants = []
generate_outfit_variants ==
    /\ generation.op = "idle"
    /\ \E num_variants \in 0..MaxVariants :
            generation' = [generation EXCEPT
                !.op = "generate_outfit_variants", !.given = <<base_spec>>,
                !.num_variants = num_variants, !.i = 0, !.pc = "loop"]
    /\ UNCHANGED base_spec

\* one turn of the loop: _create_variant_spec(spec, i), then generate_outfit
\* on the variant, whose outfit is appended when there is one
generate_variant ==
    /\ generation.pc = "loop"
    /\ generation.i < generation.num_variants
    /\ \E configured \in BOOLEAN, found \in FoundFabrics, generated \in BOOLEAN :
            LET variant_spec == CreateVariantSpec(base_spec, generation.i)
                run == GenerateOutfit(variant_spec, TRUE, configured, found, generated)
            IN  generation' = [generation EXCEPT
                    !.i = @ + 1,
                    !.calls = @ \o <<"_create_variant_spec">> \o run.calls,
                    !.variants = Append(@, variant_spec),
                    !.outfits = @ \o run.outfit]
    /\ UNCHANGED base_spec

\* the loop is over: return variants
generate_outfit_variants_return ==
    /\ generation.pc = "loop"
    /\ generation.i = generation.num_variants
    /\ generation' = [generation EXCEPT !.pc = "done"]
    /\ UNCHANGED base_spec

GenerateNext ==
    \/ generate_outfit /\ UNCHANGED OtherThanGenerate
    \/ generate_outfit_variants /\ UNCHANGED OtherThanGenerate
    \/ generate_variant /\ UNCHANGED OtherThanGenerate
    \/ generate_outfit_variants_return /\ UNCHANGED OtherThanGenerate

(***************************************************************************)
(* The fabrics documents: FormensScraper._save_scraped_data,               *)
(* FabricCSVImporter.import_csv and the loaders that read them back        *)
(***************************************************************************)
\* the fields of the dataclass FabricData
FabricDataFields ==
    {"fabric_code", "name", "composition", "weight", "color", "pattern",
     "price_category", "stock_status", "season", "supplier", "origin",
     "image_urls", "local_image_paths", "description", "care_instructions",
     "category", "scrape_date", "additional_metadata"}

\* the reading of the clock
Now == "2024-01-01T00:00:00"

\* the default of a field in the class: the supplier is "Formens", the rest None
FieldDefault(field) == IF field = "supplier" THEN <<"Formens">> ELSE <<>>

\* FabricData(**fabric_dict) for a dict whose keys are fields of the class;
\* __post_init__ sets a scrape_date that is None to the time of construction
\* and the lists and the dict that are None to empty ones (both are <<>> here)
NewFabricData(fabric_dict) ==
    [field \in FabricDataFields |->
        LET given == IF field \in DOMAIN fabric_dict
                     THEN fabric_dict[field] ELSE FieldDefault(field)
        IN  IF field = "scrape_date" /\ given = <<>> THEN <<Now>> ELSE given]

\* FabricData.to_dict: asdict(self), every field a key
ToDict(fabric_data) == [field \in FabricDataFields |-> fabric_data[field]]

\* the records the scraper hands over
ScrapedFabrics ==
    {NewFabricData([fabric_code |-> code, name |-> name, weight |-> w,
                    season |-> season, local_image_paths |-> paths]) :
        code \in {"X1", "Y2"},
        name \in {<<>>, <<"Plain Grey">>},
        w \in {<<>>, <<300>>},
        season \in {<<>>, <<"winter">>},
        paths \in {<<>>, <<"images/a.jpg">>}}

\* a CSVFabricData row as read_csv builds it: texts are '' when the cell is
\* empty, weight is None when it does not parse
CSVFabricData(code, composition, w, season) ==
    [fabric_code |-> code, supplier |-> "Formens", origin |-> "",
     composition |-> composition, weight |-> w, color |-> "Navy", pattern |-> "",
     category |-> "Business Suits", season |-> season, stock_status |-> "",
     lager |-> "", bestellte_menge |-> "", empfangsdatum |-> "",
     eigenschaften |-> "", katalog |-> "", produkttyp |-> "", mto |-> "",
     preskat |-> "", fabric_img |-> ""]

CSVFabrics ==
    {CSVFabricData(code, composition, w, season) :
        code \in {"X1", "VITALE/18"},
        composition \in {"", "100% Wool"},
        w \in {<<>>, <<300>>},
        season \in {"", "winter"}}

\* re.findall(r'[A-Z]+', fabric_code)[0], '' when there is no capital
RECURSIVE FirstCapitals(_, _)
FirstCapitals(code, started) ==
    IF Len(code) = 0 THEN ""
    ELSE IF LetterIndex(UpperCase, SubSeq(code, 1, 1)) > 0
    THEN SubSeq(code, 1, 1) \o FirstCapitals(SubSeq(code, 2, Len(code)), TRUE)
    ELSE IF started THEN ""
    ELSE FirstCapitals(SubSeq(code, 2, Len(code)), FALSE)

ExtractFabricName(fabric_code) == FirstCapitals(fabric_code, FALSE)

\* fabric_code.replace('/', '_')
RECURSIVE ReplaceSlash(_)
ReplaceSlash(s) ==
    IF Len(s) = 0 THEN ""
    ELSE (IF SubSeq(s, 1, 1) = "/" THEN "_" ELSE SubSeq(s, 1, 1))
         \o ReplaceSlash(SubSeq(s, 2, Len(s)))

\* the fabric_dict import_csv builds for one row
CSVFabricDict(row, downloaded_images) ==
    [fabric_code |-> row.fabric_code,
     name |-> <<IF ExtractFabricName(row.fabric_code) # ""
                THEN ExtractFabricName(row.fabric_code) ELSE row.supplier>>,
     supplier |-> <<row.supplier>>,
     origin |-> <<row.origin>>,
     composition |-> <<row.composition>>,
     weight |-> row.weight,
     color |-> <<row.color>>,
     pattern |-> <<row.pattern>>,
     category |-> <<row.category>>,
     seasons |-> IF row.season # "" THEN <<row.season>> ELSE <<>>,
     stock_status |-> <<row.stock_status>>,
     images |-> SelectSeq(downloaded_images,
                          LAMBDA img : TextIn(ReplaceSlash(row.fabric_code), img)),
     description |-> <<row.composition \o ", "
                       \o (IF row.weight = <<>> THEN "None" ELSE ToString(row.weight[1]))
                       \o "g/m², " \o row.color>>,
     scrape_date |-> <<Now>>,
     additional_metadata |->
        [lager |-> row.lager, bestellte_menge |-> row.bestellte_menge,
         empfangsdatum |-> row.empfangsdatum, eigenschaften |-> row.eigenschaften,
         katalog |-> row.katalog, produkttyp |-> row.produkttyp,
         mto |-> row.mto, preskat |-> row.preskat]]

\* lists of at most MaxIngest records
ListsOf(records) == UNION {[1..n -> records] : n \in 0..MaxIngest}

\* a JSON document: its top level is an object or an array
NoDocument == [top |-> "none", object |-> <<>>, array |-> <<>>]

ObjectDocument(object) == [top |-> "object", object |-> object, array |-> <<>>]

ArrayDocument(array) == [top |-> "array", object |-> <<>>, array |-> array]

\* the data _save_scraped_data dumps
ScrapedDocument(fabrics) ==
    ObjectDocument([scrape_date |-> Now, total_fabrics |-> Len(fabrics),
                    fabrics |-> [k \in 1..Len(fabrics) |-> ToDict(fabrics[k])]])

\* json.dump(fabric_dicts, f): the list itself is the document
CSVDocument(rows, downloaded_images) ==
    ArrayDocument([k \in 1..Len(rows) |-> CSVFabricDict(rows[k], downloaded_images)])

\* FabricData(**fabric_dict) raises TypeError for a key that is no field and
\* for a missing fabric_code
Constructible(fabric_dict) ==
    /\ DOMAIN fabric_dict \subseteq FabricDataFields
    /\ "fabric_code" \in DOMAIN fabric_dict

\* data = json.load(f)
\* fabrics = [FabricData(**fabric_dict) for fabric_dict in data.get('fabrics', [])]
LoadFabrics(data) ==
    IF data.top = "array"
    THEN [status |-> "raised", error |-> "AttributeError", fabrics |-> <<>>]
    ELSE LET dicts == IF "fabrics" \in DOMAIN data.object
                      THEN data.object.fabrics ELSE <<>>
         IN  IF \E k \in 1..Len(dicts) : ~Constructible(dicts[k])
             THEN [status |-> "raised", error |-> "TypeError", fabrics |-> <<>>]
             ELSE [status |-> "ok", error |-> "",
                   fabrics |-> [k \in 1..Len(dicts) |-> NewFabricData(dicts[k])]]

NotIngested == [by |-> "nobody", records |-> <<>>]

NotLoaded == [status |-> "none", error |-> "", fabrics |-> <<>>]

DocumentInit == ingested = NotIngested /\ document = NoDocument /\ loaded = NotLoaded

\* FormensScraper._save_scraped_data(fabrics)
save_scraped_data ==
    /\ document.top = "none"
    /\ \E fabrics \in ListsOf(ScrapedFabrics) :
            /\ ingested' = [by |-> "scraper", records |-> fabrics]
            /\ document' = ScrapedDocument(fabrics)
    /\ UNCHANGED loaded

\* FabricCSVImporter.import_csv, from the rows read to the file written
import_csv ==
    /\ document.top = "none"
    /\ \E rows \in ListsOf(CSVFabrics),
          downloaded_images \in {<<>>, <<"images/X1.jpg", "images/VITALE_18.jpg">>} :
            /\ ingested' = [by |-> "csv", records |-> rows]
            /\ document' = CSVDocument(rows, downloaded_images)
    /\ UNCHANGED loaded

\* a loader reads the document back
load_fabrics ==
    /\ document.top # "none"
    /\ loaded.status = "none"
    /\ loaded' = LoadFabrics(document)
    /\ UNCHANGED <<ingested, document>>

DocumentNext ==
    \/ save_scraped_data /\ UNCHANGED OtherThanDocument
    \/ import_csv /\ UNCHANGED OtherThanDocument
    \/ load_fabrics /\ UNCHANGED OtherThanDocument

(***************************************************************************)
(* DatabaseManager.save_fabric and save_embedding, one call after another: *)
(* what each call leaves in the tables fabrics, fabric_seasons,            *)
(* fabric_images and fabric_embeddings.  The rows of fabric_seasons and    *)
(* fabric_images are kept with the fabric row their fabric_id names.       *)
(***************************************************************************)
\* the FabricData records passed to save_fabric
StoreData ==
    {[fabric_code |-> code, name |-> name, weight |-> GoodWeight, season |-> season,
      image_urls |-> <<>>, local_image_paths |-> paths] :
        code \in {"A", "B"}, name \in {"n1", "n2"},
        season \in {<<>>, <<"winter">>, <<"summer", "fall">>},
        paths \in {<<>>, <<"images/a.jpg">>}}
    \cup {[fabric_code |-> "A", name |-> "n1", weight |-> BadWeight, season |-> <<>>,
           image_urls |-> <<>>, local_image_paths |-> <<>>],
          [fabric_code |-> "A", name |-> "n1", weight |-> GoodWeight,
           season |-> <<"winter", "winter">>,
           image_urls |-> <<"u1">>, local_image_paths |-> <<"images/a.jpg", "images/b.jpg">>]}

\* the FabricChunk objects passed to save_embedding
StoreChunks ==
    {[fabric_code |-> code, chunk_id |-> code \o "_characteristics",
      chunk_type |-> "characteristics", content |-> content,
      embedding |-> IF content = "c1" THEN <<1, 0>> ELSE <<0, 1>>,
      metadata |-> <<[fabric_code |-> code, note |-> content]>>] :
        code \in {"A", "B"}, content \in {"c1", "c2"}}

\* FabricSeason: UniqueConstraint('fabric_id', 'season')
SeasonViolation(season) ==
    \E j, k \in 1..Len(season) : j # k /\ season[j] = season[k]

\* the FabricImage rows _save adds for the paths
ImageRows(d) ==
    [k \in 1..Len(d.local_image_paths) |->
        [image_url |-> IF k <= Len(d.image_urls) THEN <<d.image_urls[k]>> ELSE <<>>,
         local_path |-> d.local_image_paths[k],
         image_type |-> IF k = 1 THEN "primary" ELSE "additional"]]

\* the rows _save leaves for the record: the scalar fields are assigned, the
\* seasons are replaced if fabric_data.season, the images if
\* fabric_data.local_image_paths, else those of the row stay
SavedFabric(id, old_seasons, old_images, d) ==
    [id |-> id, fabric_code |-> d.fabric_code, name |-> d.name, weight |-> d.weight,
     seasons |-> IF d.season # <<>>
                 THEN {d.season[k] : k \in 1..Len(d.season)} ELSE old_seasons,
     images |-> IF d.local_image_paths # <<>> THEN ImageRows(d) ELSE old_images]

\* the committed row of the code, as a set of at most one row
FabricsOfCode(rows, code) == {r \in rows : r.fabric_code = code}

\* the FabricEmbedding row _save leaves for the chunk: fabric_id, chunk_id,
\* chunk_type, content and embedding are assigned; the column metadata is not
\* (the chunk's metadata goes to the attribute embedding_metadata, which is
\* no column), so it keeps its value, the default {} for a new row
SavedEmbedding(fabric_id, old_metadata, c) ==
    [fabric_id |-> fabric_id, chunk_id |-> c.chunk_id, chunk_type |-> c.chunk_type,
     content |-> c.content, embedding |-> c.embedding, metadata |-> old_metadata]

EmptyStore == [fabrics |-> {}, embeddings |-> {}]

NoStoreCall ==
    [op |-> "none", fabric_data |-> <<>>, chunk |-> <<>>, status |-> "none",
     existed |-> FALSE, before |-> EmptyStore, count |-> 0]

StoreInit == database = EmptyStore /\ store_call = NoStoreCall

\* save_fabric(fabric_data) in a session of its own
store_fabric ==
    /\ store_call.count < MaxStoreCalls
    /\ \E d \in StoreData :
        LET found == FabricsOfCode(database.fabrics, d.fabric_code)
            raises == CheckViolation(d) \/ (d.season # <<>> /\ SeasonViolation(d.season))
            row == IF found = {}
                   THEN SavedFabric(<<"id", store_call.count + 1>>, {}, <<>>, d)
                   ELSE LET existing == CHOOSE r \in found : TRUE
                        IN  SavedFabric(existing.id, existing.seasons, existing.images, d)
        IN  /\ database' = IF raises THEN database
                        ELSE [database EXCEPT !.fabrics = (@ \ found) \cup {row}]
            /\ store_call' = [op |-> "save_fabric", fabric_data |-> <<d>>, chunk |-> <<>>,
                              status |-> IF raises THEN "raised" ELSE "returned",
                              existed |-> found # {}, before |-> database,
                              count |-> store_call.count + 1]

\* save_embedding(chunk) in a session of its own
store_embedding ==
    /\ store_call.count < MaxStoreCalls
    /\ \E c \in StoreChunks :
        LET fabrics == FabricsOfCode(database.fabrics, c.fabric_code)
            found == {e \in database.embeddings : e.chunk_id = c.chunk_id}
            row == LET owner == CHOOSE r \in fabrics : TRUE
                   IN  IF found = {} THEN SavedEmbedding(owner.id, <<>>, c)
                       ELSE SavedEmbedding(owner.id,
                                           (CHOOSE e \in found : TRUE).metadata, c)
        IN  /\ database' = IF fabrics = {} THEN database
                        ELSE [database EXCEPT !.embeddings = (@ \ found) \cup {row}]
            /\ store_call' = [op |-> "save_embedding", fabric_data |-> <<>>, chunk |-> <<c>>,
                              status |-> IF fabrics = {} THEN "raised" ELSE "returned",
                              existed |-> found # {}, before |-> database,
                              count |-> store_call.count + 1]

StoreNext ==
    \/ store_fabric /\ UNCHANGED OtherThanRows
    \/ store_embedding /\ UNCHANGED OtherThanRows

(***************************************************************************)
(* DatabaseManager.get_session: each caller's with block                   *)
(***************************************************************************)
Callers == {"c1", "c2"}

\* what the body of the with block, or session.commit(), may do: return, raise
\* an Exception, or raise a BaseException that is no Exception
\* (KeyboardInterrupt, SystemExit)
Outcomes == {"returns", "Exception", "BaseException"}

\* a clause that catches nothing
CatchesNothing(outcome) == FALSE

\* except Exception as e
Catches(outcome) == outcome = "Exception"

\* where the generator goes after the body or the commit ended with outcome
AfterTry(outcome, next) ==
    IF outcome = "returns" THEN next
    ELSE IF Catches(outcome) THEN "except"
    ELSE "finally"

NotEntered == [pc |-> "start", events |-> <<>>, raised |-> "returns", status |-> "running"]

SessionInit == session_use = [c \in Callers |-> NotEntered]

\* session = self.SessionLocal()
open_session(c) ==
    /\ session_use[c].pc = "start"
    /\ session_use' = [session_use EXCEPT ![c] =
            [@ EXCEPT !.pc = "body", !.events = Append(@, "open")]]

\* yield session: the body of the with block runs
with_body(c) ==
    /\ session_use[c].pc = "body"
    /\ \E outcome \in Outcomes :
        session_use' = [session_use EXCEPT ![c] =
            [@ EXCEPT !.pc = AfterTry(outcome, "commit"),
                      !.raised = outcome,
                      !.events = Append(@, "body " \o outcome)]]

\* session.commit()
session_commit(c) ==
    /\ session_use[c].pc = "commit"
    /\ \E outcome \in Outcomes :
        session_use' = [session_use EXCEPT ![c] =
            [@ EXCEPT !.pc = AfterTry(outcome, "finally"),
                      !.raised = outcome,
                      !.events = Append(@, "commit " \o outcome)]]

\* except Exception: session.rollback(); logger.error(...); raise
session_rollback(c) ==
    /\ session_use[c].pc = "except"
    /\ session_use' = [session_use EXCEPT ![c] =
            [@ EXCEPT !.pc = "finally", !.events = Append(@, "rollback")]]

\* finally: session.close(); then the with statement ends, raising what is
\* pending
session_close(c) ==
    /\ session_use[c].pc = "finally"
    /\ session_use' = [session_use EXCEPT ![c] =
            [@ EXCEPT !.pc = "left", !.events = Append(@, "close"),
                      !.status = IF session_use[c].raised = "returns"
                                  THEN "returned" ELSE "raised"]]

SessionNext ==
    \/ \E c \in Callers : open_session(c) /\ UNCHANGED OtherThanSession
    \/ \E c \in Callers : with_body(c) /\ UNCHANGED OtherThanSession
    \/ \E c \in Callers : session_commit(c) /\ UNCHANGED OtherThanSession
    \/ \E c \in Callers : session_rollback(c) /\ UNCHANGED OtherThanSession
    \/ \E c \in Callers : session_close(c) /\ UNCHANGED OtherThanSession

(***************************************************************************)
(* Specifications, one per component; the other components stay idle       *)
(***************************************************************************)
SearchUnused == chunks = <<>> /\ search_call = SearchIdle /\ results = <<>>

EmbedUnused ==
    /\ batch = <<>>
    /\ embed_call = EmbedIdle
    /\ embed_return = NothingReturned
    /\ service_calls = 0

DbUnused == fabric_embeddings = {} /\ db_call = DbIdle /\ db_results = DbNothing

RagUnused ==
    /\ prefs = <<>>
    /\ processed_doc = <<>>
    /\ fabrics_doc = <<>>
    /\ rag_call = RagIdle
    /\ rag_return = RagNothing

SaveUnused == fabrics_table = {} /\ sessions = <<>>

WriteUnused == embeddings_table = {} /\ embedding_sessions = <<>>

BuildUnused == fabric = <<>> /\ built = <<>>

WeightUnused == weight = 0 /\ weight_result = <<>>

PromptUnused == outfit_spec = <<>> /\ prompt = <<>>

ClassUnused == class_weight = 0 /\ classes = <<>>

GenerateUnused == base_spec = <<>> /\ generation = <<>>

DocumentUnused == ingested = <<>> /\ document = <<>> /\ loaded = <<>>

RowsUnused == database = <<>> /\ store_call = <<>>

SessionUnused == session_use = <<>>

OutfitUnused == PromptUnused /\ ClassUnused /\ GenerateUnused

RecordUnused == DocumentUnused /\ RowsUnused /\ SessionUnused

LaterUnused == OutfitUnused /\ RecordUnused

RetrievalUnused == SearchUnused /\ EmbedUnused /\ DbUnused /\ RagUnused

IngestUnused == SaveUnused /\ WriteUnused /\ BuildUnused /\ WeightUnused

InitSearch == SearchInit /\ EmbedUnused /\ DbUnused /\ RagUnused /\ IngestUnused /\ LaterUnused

InitEmbed == EmbedInit /\ SearchUnused /\ DbUnused /\ RagUnused /\ IngestUnused /\ LaterUnused

InitDb == DbInit /\ SearchUnused /\ EmbedUnused /\ RagUnused /\ IngestUnused /\ LaterUnused

InitQuery == QueryInit /\ SearchUnused /\ EmbedUnused /\ IngestUnused /\ LaterUnused

InitFind == FindInit /\ SearchUnused /\ EmbedUnused /\ DbUnused /\ IngestUnused /\ LaterUnused

InitSave ==
    SaveInit /\ RetrievalUnused /\ WriteUnused /\ BuildUnused /\ WeightUnused /\ LaterUnused

InitWrite == WriteInit /\ RetrievalUnused /\ BuildUnused /\ WeightUnused /\ LaterUnused

InitWeight == WeightInit /\ RetrievalUnused /\ SaveUnused /\ WriteUnused /\ BuildUnused /\ LaterUnused

InitBuild == BuildInit /\ RetrievalUnused /\ SaveUnused /\ WriteUnused /\ WeightUnused /\ LaterUnused

InitPrompt ==
    /\ PromptInit /\ RetrievalUnused /\ IngestUnused
    /\ ClassUnused /\ GenerateUnused /\ RecordUnused

InitClass ==
    /\ ClassInit /\ RetrievalUnused /\ IngestUnused
    /\ PromptUnused /\ GenerateUnused /\ RecordUnused

InitGenerate ==
    /\ GenerateInit /\ RetrievalUnused /\ IngestUnused
    /\ PromptUnused /\ ClassUnused /\ RecordUnused

InitDocument ==
    /\ DocumentInit /\ RetrievalUnused /\ IngestUnused
    /\ OutfitUnused /\ RowsUnused /\ SessionUnused

InitRows ==
    /\ StoreInit /\ RetrievalUnused /\ IngestUnused
    /\ OutfitUnused /\ DocumentUnused /\ SessionUnused

InitSession ==
    /\ SessionInit /\ RetrievalUnused /\ IngestUnused
    /\ OutfitUnused /\ DocumentUnused /\ RowsUnused

SpecSearch == InitSearch /\ [][SearchNext]_vars

SpecEmbed == InitEmbed /\ [][EmbedNext]_vars

SpecDb == InitDb /\ [][DbNext]_vars

SpecQuery == InitQuery /\ [][QueryNext]_vars

SpecFind == InitFind /\ [][FindNext]_vars

SpecSave == InitSave /\ [][SaveNext]_vars

SpecWrite == InitWrite /\ [][WriteNext]_vars

SpecWeight == InitWeight /\ [][WeightNext]_vars

SpecBuild == InitBuild /\ [][BuildNext]_vars

SpecPrompt == InitPrompt /\ [][PromptNext]_vars

SpecClass == InitClass /\ [][ClassNext]_vars

SpecGenerate == InitGenerate /\ [][GenerateNext]_vars

SpecDocument == InitDocument /\ [][DocumentNext]_vars

SpecRows == InitRows /\ [][StoreNext]_vars

SpecSession == InitSession /\ [][SessionNext]_vars

(***************************************************************************)
(* Claims about similarity_search                                          *)
(***************************************************************************)
SearchReturned == search_call # SearchIdle

SearchRan == SearchReturned /\ search_call.outcome.service = "ok"

\* the top_k the caller asked for: the configured default when not supplied
RequestedTopK == IF search_call.top_k = <<>> THEN RAG_TOP_K_RESULTS
                 ELSE search_call.top_k[1]

\* C, the embedded chunks whose cosine score reaches the threshold
QualifyingChunks ==
    {i \in 1..Len(chunks) :
        /\ chunks[i] # None
        /\ AtLeast(CosineSimilarity(search_call.query, chunks[i]),
                   RAG_SIMILARITY_THRESHOLD)}

\* a is ranked before b: higher score, or equal score and earlier in the input
RankedBefore(a, b) ==
    \/ a.score > b.score
    \/ a.score = b.score /\ a.chunk < b.chunk

Min(a, b) == IF a < b THEN a ELSE b

\* C1: every returned score is >= the threshold, at most top_k pairs are
\* returned (top_k = 0 and top_k not supplied included), and the scores are in
\* non-increasing order.
C1_ThresholdTopKLaw ==
    SearchReturned =>
        /\ \A i \in 1..Len(results) :
               AtLeast(results[i].score, RAG_SIMILARITY_THRESHOLD)
        /\ Len(results) <= RequestedTopK
        /\ \A i \in 1..Len(results) : \A j \in i..Len(results) :
               results[i].score >= results[j].score

\* C5: the search returns exactly the first min(top_k, |C|) elements of C in
\* descending score order, equal scores in input order.
C5_ExactRankedPrefix ==
    SearchRan =>
        /\ Len(results) = Min(RequestedTopK, Cardinality(QualifyingChunks))
        /\ \A i \in 1..Len(results) :
               /\ results[i].chunk \in QualifyingChunks
               /\ results[i].score =
                      CosineSimilarity(search_call.query, chunks[results[i].chunk])
        /\ \A i \in 1..Len(results) : \A j \in (i + 1)..Len(results) :
               RankedBefore(results[i], results[j])
        /\ \A c \in QualifyingChunks :
               \/ \E i \in 1..Len(results) : results[i].chunk = c
               \/ \A i \in 1..Len(results) :
                      RankedBefore(results[i],
                          [chunk |-> c,
                           score |-> CosineSimilarity(search_call.query, chunks[c])])

\* the law of C1 for every top_k >= 1 and for top_k not supplied
SearchLawForPositiveTopK ==
    (SearchReturned /\ search_call.top_k # <<0>>) => C1_ThresholdTopKLaw

\* the ranking of C5 for every top_k >= 1 and for top_k not supplied
SearchRankingForPositiveTopK ==
    (SearchRan /\ search_call.top_k # <<0>>) => C5_ExactRankedPrefix

\* Scenario C: one chunk scoring 0.82, threshold 0.7, the default top_k of 5
ScenarioC ==
    (/\ SearchRan
     /\ chunks = <<Vec(13, 9)>>
     /\ search_call.query = Vec(1, 0)
     /\ search_call.top_k = <<>>)
    => results = <<[chunk |-> 1, score |-> 82]>>

ScenarioCReached ==
    /\ SearchRan
    /\ chunks = <<Vec(13, 9)>>
    /\ search_call.query = Vec(1, 0)
    /\ search_call.top_k = <<>>

(***************************************************************************)
(* Claims about the embedding client                                       *)
(***************************************************************************)
EmbedReturned == embed_call # EmbedIdle

\* the call reached the embedding service and the service raised
ServiceFailed ==
    /\ EmbedReturned
    /\ embed_call.configured
    /\ \E i \in 1..Len(embed_call.responses) :
           embed_call.responses[i].status = "error"

\* the service answered the one batch with as many vectors as it has chunks
ServiceAnswered ==
    /\ EmbedReturned
    /\ embed_call.op = "_generate_embeddings"
    /\ embed_call.configured
    /\ embed_call.responses[1].status = "ok"
    /\ Len(embed_call.responses[1].data) = Len(embed_call.input)

Embedded(c) == c.embedding # None

\* C2: after a call on a batch of chunks lacking embeddings (service success,
\* error, or a response shorter than the batch) either every chunk of the
\* batch has an embedding or none has.
C2_BatchAllOrNothing ==
    (EmbedReturned /\ embed_call.op \in {"_generate_embeddings", "process_fabric"})
    => \/ \A i \in 1..Len(embed_return.value) : Embedded(embed_return.value[i])
       \/ \A i \in 1..Len(embed_return.value) : ~Embedded(embed_return.value[i])

\* C3: on a successful answer for a batch of N >= 0 chunks, N chunks come back,
\* the i-th being the i-th input chunk carrying the i-th vector of the
\* response, of the configured dimensionality.
C3_OrderPreserved ==
    ServiceAnswered =>
        /\ Len(embed_return.value) = Len(embed_call.input)
        /\ batch = embed_return.value
        /\ \A i \in 1..Len(embed_call.input) :
               /\ embed_return.value[i].chunk_id = embed_call.input[i].chunk_id
               /\ embed_return.value[i].fabric_code = embed_call.input[i].fabric_code
               /\ embed_return.value[i].chunk_type = embed_call.input[i].chunk_type
               /\ embed_return.value[i].embedding = embed_call.responses[1].data[i]
               /\ embed_return.value[i].embedding.dims = OPENAI_EMBEDDING_DIMENSIONS

\* a batch of three chunks answered with vectors that differ by position
C3_Witness ==
    /\ ServiceAnswered
    /\ Len(embed_call.input) = 3
    /\ embed_call.responses[1].data[1] # embed_call.responses[1].data[3]
    /\ embed_return.value[3].embedding = embed_call.responses[1].data[3]

\* C4: when the embedding service call fails, the client signals
\* EmbeddingServiceUnavailable to its caller instead of returning normally,
\* and calls the service at most once per invocation.
C4_FailureSignalled ==
    ServiceFailed =>
        /\ embed_return.raised = "EmbeddingServiceUnavailable"
        /\ service_calls <= Len(embed_call.responses)

\* the half of C4 the code keeps: one embeddings.create call per invocation of
\* _generate_embeddings, none repeated after a failure
EmbeddingClientNoSelfRetry ==
    EmbedReturned => service_calls <= Len(embed_call.responses)

\* the batch stays whole whenever the service raises or answers in full
BatchWholeUnlessShortAnswer ==
    (/\ EmbedReturned
     /\ embed_call.op \in {"_generate_embeddings", "process_fabric"}
     /\ \/ embed_call.responses[1].status = "error"
        \/ Len(embed_call.responses[1].data) >= Len(embed_call.input))
    => C2_BatchAllOrNothing

(***************************************************************************)
(* Claims about the store-backed search                                    *)
(***************************************************************************)
DbSearched == db_call # DbIdle /\ db_call.store = "ok"

\* the similarities of fabric f's chunks that reach the threshold of the call
QualifyingSimilarities(f) ==
    {CosineSimilarity(r.embedding, db_call.query) :
        r \in {x \in fabric_embeddings :
                 /\ x.fabric_id = f
                 /\ x.embedding # None
                 /\ AtLeast(CosineSimilarity(x.embedding, db_call.query),
                            db_call.threshold)}}

QualifyingFabrics == {f \in FabricIds : QualifyingSimilarities(f) # {}}

BestSimilarity(f) ==
    CHOOSE m \in QualifyingSimilarities(f) :
        \A x \in QualifyingSimilarities(f) : m >= x

ReturnedFabrics == {db_results.value[i].id : i \in 1..Len(db_results.value)}

\* C6: the store-backed search returns its results in non-increasing
\* similarity order, and when more than `limit` fabrics qualify no omitted
\* qualifying fabric scores higher than a returned one.
C6_StoreSearchRanked ==
    DbSearched =>
        /\ \A i \in 1..Len(db_results.value) : \A j \in i..Len(db_results.value) :
               db_results.value[i].similarity >= db_results.value[j].similarity
        /\ \A f \in QualifyingFabrics \ ReturnedFabrics :
               \A i \in 1..Len(db_results.value) :
                   db_results.value[i].similarity >= BestSimilarity(f)

\* C7: at most `limit` results, each fabric at most once, every similarity
\* >= threshold, and the similarity of a fabric is that of its best-matching
\* qualifying chunk.
C7_StoreSearchDeduplicated ==
    DbSearched =>
        /\ Len(db_results.value) <= db_call.limit
        /\ \A i \in 1..Len(db_results.value) : \A j \in 1..Len(db_results.value) :
               db_results.value[i].id = db_results.value[j].id => i = j
        /\ \A i \in 1..Len(db_results.value) :
               /\ db_results.value[i].similarity >= db_call.threshold
               /\ db_results.value[i].id \in QualifyingFabrics
               /\ db_results.value[i].similarity = BestSimilarity(db_results.value[i].id)

\* a returned fabric has two qualifying chunks of different similarity, and a
\* second qualifying fabric is cut off by the limit
C7_Witness ==
    /\ DbSearched
    /\ Len(db_results.value) = 1
    /\ Cardinality(QualifyingFabrics) = 2
    /\ Cardinality(QualifyingSimilarities(db_results.value[1].id)) = 2

(***************************************************************************)
(* Claims about the retrieval query builders                               *)
(***************************************************************************)
RagReturned == rag_call # RagIdle

\* text s holds the text sub at position i
HoldsAt(s, sub, i) ==
    /\ i >= 1
    /\ i + Len(sub) - 1 <= Len(s)
    /\ SubSeq(s, i, i + Len(sub) - 1) = sub

Contains(s, sub) == \E i \in 1..Len(s) : HoldsAt(s, sub, i)

FirstAt(s, sub) == CHOOSE i \in 1..Len(s) :
                       HoldsAt(s, sub, i) /\ \A j \in 1..(i - 1) : ~HoldsAt(s, sub, j)

\* the word that ends the segment of each field, in the fixed priority order
FieldWords == <<"occasion", "season", "style", "color", "pattern">>

FieldPresent(k) ==
    CASE k = 1 -> Truthy(prefs.occasion)
      [] k = 2 -> Truthy(prefs.season)
      [] k = 3 -> prefs.style_preferences # <<>>
      [] k = 4 -> prefs.color_preferences # <<>>
      [] k = 5 -> prefs.pattern_preferences # <<>>

\* C9: the query concatenates the segments of the present fields in the fixed
\* order occasion, season, style, color, pattern, in _find_suitable_fabrics
\* and in /recommend alike.
C9_FixedFieldOrder ==
    RagReturned =>
        \A k \in 1..Len(FieldWords) : \A m \in (k + 1)..Len(FieldWords) :
            (FieldPresent(k) /\ FieldPresent(m)) =>
                /\ Contains(rag_return.query, FieldWords[k])
                /\ Contains(rag_return.query, FieldWords[m])
                /\ FirstAt(rag_return.query, FieldWords[k])
                       < FirstAt(rag_return.query, FieldWords[m])

\* C10: the query contains a segment for a field if and only if the field is
\* present (non-empty); an absent or empty field contributes no text at all.
C10_SegmentIffPresent ==
    RagReturned =>
        \A k \in 1..Len(FieldWords) :
            Contains(rag_return.query, FieldWords[k]) <=> FieldPresent(k)

\* what the /recommend builder keeps of C9 and C10: present fields only, in
\* the fixed order
RecommendQueryWellFormed ==
    (RagReturned /\ rag_call.op = "recommend_fabrics")
    => C9_FixedFieldOrder /\ C10_SegmentIffPresent

(***************************************************************************)
(* Claims about _find_suitable_fabrics                                     *)
(***************************************************************************)
FindReturned == rag_call # RagIdle /\ rag_call.op = "_find_suitable_fabrics"

HitCodes ==
    {processed_doc.chunks[rag_return.hits[i].chunk].fabric_code :
        i \in 1..Len(rag_return.hits)}

\* the score of the best-matching hit of a fabric code
BestHitScore(code) ==
    LET scores == {rag_return.hits[i].score : i \in
                     {j \in 1..Len(rag_return.hits) :
                        processed_doc.chunks[rag_return.hits[j].chunk].fabric_code = code}}
    IN  CHOOSE m \in scores : \A x \in scores : m >= x

\* C8: at most 3 records, with pairwise distinct fabric codes, each a code of
\* a search hit, ordered by the score of the best-matching chunk, highest first.
C8_UniqueCodesInScoreOrder ==
    FindReturned =>
        /\ Len(rag_return.fabrics) <= FIND_MAX_FABRICS
        /\ \A i \in 1..Len(rag_return.fabrics) : \A j \in 1..Len(rag_return.fabrics) :
               rag_return.fabrics[i].fabric_code = rag_return.fabrics[j].fabric_code
                   => i = j
        /\ \A i \in 1..Len(rag_return.fabrics) :
               rag_return.fabrics[i].fabric_code \in HitCodes
        /\ \A i \in 1..Len(rag_return.fabrics) : \A j \in i..Len(rag_return.fabrics) :
               BestHitScore(rag_return.fabrics[i].fabric_code)
                   >= BestHitScore(rag_return.fabrics[j].fabric_code)

\* what the code keeps of C8: at most 3 records, each of a hit's code, in the
\* order of the fabrics document
FindKeepsDocumentOrder ==
    FindReturned =>
        /\ Len(rag_return.fabrics) <= FIND_MAX_FABRICS
        /\ \A i \in 1..Len(rag_return.fabrics) :
               /\ rag_return.fabrics[i].fabric_code \in HitCodes
               /\ fabrics_doc.fabrics[rag_return.fabrics[i].record]
                      = rag_return.fabrics[i].fabric_code
        /\ \A i \in 1..Len(rag_return.fabrics) : \A j \in (i + 1)..Len(rag_return.fabrics) :
               rag_return.fabrics[i].record < rag_return.fabrics[j].record

(***************************************************************************)
(* Claims about save_fabric and the batch writers                          *)
(***************************************************************************)
RowsOfCode(code) == {r \in fabrics_table : r.fabric_code = code}

\* C11: whatever the interleaving of save_fabric calls, the store holds at
\* most one Fabric row per fabric_code; a save of a stored code works on the
\* existing row, and a row is never inserted next to a stored row of its code
C11_OneRowPerCode ==
    /\ \A c \in SaveCodes : Cardinality(RowsOfCode(c)) <= 1
    /\ \A w \in Writers :
          /\ \A r \in sessions[w].pending : RowsOfCode(r.fabric_code) = {}
          /\ sessions[w].existing # <<>> =>
                \E r \in RowsOfCode(sessions[w].input[sessions[w].i].fabric_code) :
                    r.id = sessions[w].existing

\* two concurrent save_fabric calls of the same code, not stored before, both
\* over: one stored its row, the other raised, and there is one row
C11_Witness ==
    /\ \A w \in Writers :
          /\ sessions[w].op = "save_fabric"
          /\ sessions[w].pc = "done"
          /\ sessions[w].input[1] = [fabric_code |-> "B", name |-> w,
                                     weight |-> GoodWeight]
    /\ sessions["w1"].status = "returned"
    /\ sessions["w2"].status = "raised"
    /\ Cardinality(RowsOfCode("B")) = 1

\* the two writers store the same chunk set, of the stored fabric A
SameChunkSet ==
    /\ Len(embedding_sessions["w1"].input) = Len(embedding_sessions["w2"].input)
    /\ \A i \in 1..Len(embedding_sessions["w1"].input) :
          /\ embedding_sessions["w1"].input[i].chunk_id
                = embedding_sessions["w2"].input[i].chunk_id
          /\ embedding_sessions["w1"].input[i].fabric_code = "A"

WritersDone == \A w \in Writers : embedding_sessions[w].pc = "done"

\* C12: when two writers concurrently store the chunk set of the same fabric
\* code, the stored chunk set ends up entirely the set of one of the writers
C12_LastWriterWins ==
    embedding_sessions # <<>> /\ SameChunkSet /\ WritersDone =>
        \E w \in Writers : \A r \in embeddings_table : r.content = w

\* each stored chunk is, whole, the chunk one writer passed
StoredChunksAreWritersChunks ==
    embedding_sessions # <<>> =>
        \A r \in embeddings_table :
            \E w \in Writers : \E i \in 1..Len(embedding_sessions[w].input) :
                /\ r.chunk_id = embedding_sessions[w].input[i].chunk_id
                /\ r.chunk_type = embedding_sessions[w].input[i].chunk_type
                /\ r.content = embedding_sessions[w].input[i].content

\* the records of a batch that a save on its own accepts
ValidRecords(s) == {i \in 1..Len(s.input) : ~CheckViolation(s.input[i])}

\* writer w runs a batch while the other writer has nothing to do
BatchAlone(w) ==
    /\ DOMAIN sessions = Writers
    /\ sessions[w].op = "save_fabrics_batch"
    /\ sessions[w].pc = "done"
    /\ \A v \in Writers \ {w} : Len(sessions[v].input) = 0

\* C13: in a batch a failure on one record is isolated: the batch runs to
\* its end and returns, every record that is valid on its own is stored, and
\* the returned count is the number of those records
C13_BatchFailureIsolated ==
    \A w \in Writers :
        BatchAlone(w) =>
            /\ sessions[w].status = "returned"
            /\ sessions[w].count = Cardinality(ValidRecords(sessions[w]))
            /\ \A i \in ValidRecords(sessions[w]) :
                  \E r \in RowsOfCode(sessions[w].input[i].fabric_code) :
                      r.name = w /\ r.weight = sessions[w].input[i].weight

\* what save_fabrics_batch does keep: the records before the first failing
\* one are stored and counted, and a batch without a failing record returns
\* the count of its records
BatchStoresUpToFirstFailure ==
    \A w \in Writers :
        BatchAlone(w) =>
            /\ sessions[w].count + Cardinality(sessions[w].failed)
                  = Len(sessions[w].input)
            /\ \A i \in 1..Len(sessions[w].input) :
                  (\A j \in 1..i : j \in ValidRecords(sessions[w])) =>
                      i \notin sessions[w].failed
            /\ sessions[w].failed = {} <=> sessions[w].status = "returned"

\* save_embeddings_batch: a chunk whose fabric is not stored raises before
\* the session is used, and the other chunks of the batch are stored
MissingFabricIsolated ==
    \A w \in Writers :
        (/\ DOMAIN embedding_sessions = Writers
         /\ embedding_sessions[w].pc = "done"
         /\ \A v \in Writers \ {w} : Len(embedding_sessions[v].input) = 0) =>
            /\ embedding_sessions[w].status = "returned"
            /\ \A i \in 1..Len(embedding_sessions[w].input) :
                  embedding_sessions[w].input[i].fabric_code = "A" =>
                      \E r \in embeddings_table :
                          /\ r.chunk_id = embedding_sessions[w].input[i].chunk_id
                          /\ r.content = w
            /\ embedding_sessions[w].count =
                  Cardinality({i \in 1..Len(embedding_sessions[w].input) :
                                  embedding_sessions[w].input[i].fabric_code = "A"})

(***************************************************************************)
(* Claims about empty results and failures                                 *)
(***************************************************************************)
\* what the caller of a search that matched nothing obtains
NoMatchResult == <<>>

\* C14: a search in which no chunk reaches the threshold yields an empty
\* result, and a search in which the embedding service failed yields
\* something the caller can tell from that empty result
C14_NoMatchDistinctFromFailure ==
    SearchReturned =>
        /\ (SearchRan /\ QualifyingChunks = {} => results = NoMatchResult)
        /\ (search_call.outcome.service = "error" => results # NoMatchResult)

\* /recommend does tell the two apart: 200 with the list found (empty or
\* not) when service and store answered, 500 when one of them failed
RecommendAnswers500OnFailure ==
    RagReturned /\ rag_call.op = "recommend_fabrics" =>
        /\ rag_call.outcome.service = "ok" => rag_return.status = 200
        /\ rag_call.outcome.service = "error" =>
              rag_return.status = 500 /\ rag_return.hits = <<>>

(***************************************************************************)
(* Claims about the weight bands                                           *)
(***************************************************************************)
SeasonsInferred ==
    weight_result # <<>> /\ weight_result[1] = "_infer_seasons_from_weight"

WeightCategorized ==
    weight_result # <<>> /\ weight_result[1] = "_categorize_weight"

SeasonSet(seasons) == {seasons[k] : k \in 1..Len(seasons)}

\* C15: the seasons inferred for weight w are {spring, summer} for
\* 0 <= w < 250, {spring, fall} for 250 <= w < 350, {fall, winter} for
\* 350 <= w <= 600, and none for w < 0 or w > 600
C15_SeasonBands ==
    SeasonsInferred =>
        SeasonSet(weight_result[2]) =
            IF 0 <= weight /\ weight < 250 THEN {"spring", "summer"}
            ELSE IF 250 <= weight /\ weight < 350 THEN {"spring", "fall"}
            ELSE IF 350 <= weight /\ weight <= 600 THEN {"fall", "winter"}
            ELSE {}

\* the bands as the code has them: the heavy band ends before 600
SeasonBandsHalfOpen ==
    SeasonsInferred =>
        SeasonSet(weight_result[2]) =
            IF 0 <= weight /\ weight < 250 THEN {"spring", "summer"}
            ELSE IF 250 <= weight /\ weight < 350 THEN {"spring", "fall"}
            ELSE IF 350 <= weight /\ weight < 600 THEN {"fall", "winter"}
            ELSE {}

\* C16: the category bands are half-open: every w in [0,250) is Lightweight
\* (249 is), every w in [250,350) Medium (250 and 349 are), 350 is
\* Heavyweight, and no weight lies in two bands
C16_HalfOpenCategories ==
    /\ Cardinality({k \in 1..Len(FABRIC_WEIGHTS) : InBand(weight, FABRIC_WEIGHTS[k])}) <= 1
    /\ WeightCategorized =>
          /\ 0 <= weight /\ weight < 250 => weight_result[2] = "Lightweight"
          /\ 250 <= weight /\ weight < 350 => weight_result[2] = "Medium"
          /\ weight = 350 => weight_result[2] = "Heavyweight"

\* the weight on the boundary of two bands has been categorised
C16_Witness == WeightCategorized /\ weight = 250 /\ weight_result[2] = "Medium"

(***************************************************************************)
(* Claims about the chunks of a record                                     *)
(***************************************************************************)
ChunksBuilt == built # <<>>

\* the chunks of the given type among those returned
BuiltOfType(chunk_type) ==
    {k \in 1..Len(built[1].chunks) : built[1].chunks[k].chunk_type = chunk_type}

\* a record with a code and a name and nothing else (the supplier keeps its
\* default)
OnlyCodeAndName(f) ==
    /\ Truthy(f.name)
    /\ f.composition = <<>> /\ f.weight = <<>> /\ f.color = <<>>
    /\ f.pattern = <<>> /\ f.season = <<>> /\ f.category = <<>>
    /\ f.description = <<>> /\ f.care_instructions = <<>>
    /\ f.origin = <<>> /\ f.stock_status = <<>> /\ f.image_urls = <<>>
    /\ f.supplier = <<"Formens">>

\* C17: a chunk of a type is emitted only if one of the attributes that
\* feed it is present or inferable: a usage chunk only with a season, a
\* weight or a category; for a record with only a code and a name no usage
\* chunk is emitted, and the characteristics and visual chunks are
C17_ChunkOnlyIfAttribute ==
    ChunksBuilt =>
        /\ BuiltOfType("usage") # {} =>
              fabric.season # <<>> \/ HasWeight(fabric) \/ Truthy(fabric.category)
        /\ OnlyCodeAndName(fabric) =>
              /\ BuiltOfType("usage") = {}
              /\ BuiltOfType("characteristics") # {}
              /\ BuiltOfType("visual") # {}

\* what the code does: every builder starts its parts with the fabric code,
\* so the four chunks are emitted for every record
EveryRecordGetsFourChunks ==
    ChunksBuilt =>
        /\ Len(built[1].chunks) = 4
        /\ \A t \in 1..4 : built[1].chunks[t].chunk_type = ChunkTypes[t]
        /\ \A t \in 1..4 :
              HoldsAt(built[1].chunks[t].content,
                      "Fabric Code: " \o fabric.fabric_code, 1)

\* the chunk ids a record of the given code gets
ChunkIdsOf(f) ==
    {CreateFabricChunksOf(f)[k].chunk_id : k \in 1..Len(CreateFabricChunksOf(f))}

\* C18: a record gets 0 to 4 chunks, at most one of each type, each of a
\* type of the closed set, with the record's code, the id code_type, a
\* content that is not empty and no embedding; records of different codes
\* get different chunk ids
C18_ChunkInvariants ==
    ChunksBuilt =>
        /\ Len(built[1].chunks) \in 0..4
        /\ \A t \in {"characteristics", "visual", "usage", "technical"} :
              Cardinality(BuiltOfType(t)) <= 1
        /\ \A k \in 1..Len(built[1].chunks) :
              LET c == built[1].chunks[k]
              IN  /\ c.chunk_type \in {"characteristics", "visual", "usage", "technical"}
                  /\ c.fabric_code = fabric.fabric_code
                  /\ c.chunk_id = fabric.fabric_code \o "_" \o c.chunk_type
                  /\ c.content # ""
                  /\ c.embedding = None
        /\ \A code \in BuildCodes \ {fabric.fabric_code} :
              ChunkIdsOf([fabric EXCEPT !.fabric_code = code])
                  \cap {built[1].chunks[k].chunk_id : k \in 1..Len(built[1].chunks)}
              = {}

\* the chunks of a record that fills every chunk type have been built
C18_Witness ==
    /\ ChunksBuilt
    /\ Len(built[1].chunks) = 4
    /\ fabric.fabric_code = "X1"
    /\ built[1].chunks[3].chunk_id = "X1_usage"
    /\ fabric.season # <<>> /\ Truthy(fabric.composition) /\ Truthy(fabric.color)

\* the content of the chunk of the given type
ContentOf(chunk_type) ==
    built[1].chunks[CHOOSE k \in BuiltOfType(chunk_type) : TRUE].content

MetadataOf(chunk_type) ==
    built[1].chunks[CHOOSE k \in BuiltOfType(chunk_type) : TRUE].metadata

\* the content has the part, whole, between two separators or at its end
HasPart(content, part) == TextIn(" | " \o part \o " | ", content \o " | ")

\* how often the text occurs in the content
Occurrences(content, sub) ==
    Cardinality({i \in 1..Len(content) : HoldsAt(content, sub, i)})

\* the pattern and the finish to expect for the names and descriptions of the
\* model: "Herringbone Checked" holds two patterns, of which checked comes
\* first in FABRIC_PATTERNS; "Satin brushed cotton blend" holds two finishes,
\* of which brushed comes first in FABRIC_FINISHES
ExpectedPattern(f) ==
    IF f.name = <<"Pinstripe Wool">> THEN "Pinstripe"
    ELSE IF f.name = <<"Herringbone Checked">> THEN "Checked"
    ELSE "Solid"

ExpectedFinish(f) ==
    IF f.description = <<"Satin brushed cotton blend">> THEN "Brushed" ELSE "Smooth"

\* the inferred pattern and finish, and the record left as it was
InferenceChain ==
    /\ ~Truthy(fabric.pattern) =>
          HasPart(ContentOf("visual"), "Pattern: " \o ExpectedPattern(fabric))
    /\ HasPart(ContentOf("visual"), "Finish: " \o ExpectedFinish(fabric))
    /\ built[1].record = fabric

\* the explicit values of the fields for which present(field) holds are
\* written as they are, and nothing inferred next to them
ExplicitKept(present(_)) ==
    /\ present(fabric.composition) =>
          /\ HasPart(ContentOf("characteristics"),
                     "Composition: " \o OrEmpty(fabric.composition))
          /\ Occurrences(ContentOf("characteristics"), " | Composition: ") = 1
    /\ present(fabric.pattern) =>
          /\ HasPart(ContentOf("visual"), "Pattern: " \o OrEmpty(fabric.pattern))
          /\ Occurrences(ContentOf("visual"), " | Pattern: ") = 1
    /\ fabric.season # <<>> =>
          /\ HasPart(ContentOf("usage"), "Seasons: " \o Join(", ", fabric.season))
          /\ ~TextIn("Recommended Seasons: ", ContentOf("usage"))
    /\ present(fabric.care_instructions) =>
          /\ HasPart(ContentOf("technical"),
                     "Care: " \o OrEmpty(fabric.care_instructions))
          /\ ~TextIn("Care Instructions: ", ContentOf("technical"))

NotNone(field) == field # <<>>

\* C19: inference goes explicit value, first vocabulary match in table
\* order, default: a composition, pattern, season list or care_instructions
\* that is not null is in the content unchanged, in place of any inferred
\* value; a null pattern gives the first FABRIC_PATTERNS term found, else
\* Solid; the finish is the first FABRIC_FINISHES term found, else Smooth;
\* the record is left unchanged
C19_ExplicitNeverOverwritten ==
    ChunksBuilt => ExplicitKept(NotNone) /\ InferenceChain

\* C19 as amended: the same for a composition, pattern, season list or
\* care_instructions that is not null and not empty
C19_NonEmptyNeverOverwritten ==
    ChunksBuilt => ExplicitKept(Truthy) /\ InferenceChain

\* a record whose explicit composition differs from the one its name would
\* give, and whose pattern is inferred from a name holding two patterns
C19_Witness ==
    /\ ChunksBuilt
    /\ fabric.composition = <<"100% Linen">>
    /\ fabric.name = <<"Herringbone Checked">>
    /\ fabric.pattern = <<>>
    /\ fabric.season # <<>>
    /\ HasPart(ContentOf("visual"), "Pattern: Checked")
    /\ HasPart(ContentOf("characteristics"), "Composition: 100% Linen")

\* the part "label: value" is in the content exactly when the metadata
\* records a value, and with that value
Mirrors(content, label, value) ==
    IF Truthy(value) THEN HasPart(content, label \o ": " \o OrEmpty(value))
    ELSE ~TextIn(" | " \o label \o ": ", content)

\* the seasons of the usage metadata are those written in the usage content
SeasonsMirrored ==
    IF MetadataOf("usage").seasons # <<>>
    THEN \/ HasPart(ContentOf("usage"),
                    "Seasons: " \o Join(", ", MetadataOf("usage").seasons))
         \/ HasPart(ContentOf("usage"),
                    "Recommended Seasons: " \o Join(", ", MetadataOf("usage").seasons))
    ELSE ~TextIn("Seasons: ", ContentOf("usage"))

\* C20: the metadata of every chunk mirrors the fields its content uses:
\* the composition of the characteristics metadata is the composition
\* written in the content, also when it was inferred, and the seasons of the
\* usage metadata are the seasons written in the content
C20_MetadataMirrorsContent ==
    ChunksBuilt =>
        /\ Mirrors(ContentOf("characteristics"), "Composition",
                   MetadataOf("characteristics").composition)
        /\ Mirrors(ContentOf("characteristics"), "Weight Category",
                   MetadataOf("characteristics").weight_category)
        /\ Mirrors(ContentOf("visual"), "Color", MetadataOf("visual").color)
        /\ Mirrors(ContentOf("visual"), "Pattern", MetadataOf("visual").pattern)
        /\ Mirrors(ContentOf("usage"), "Category", MetadataOf("usage").category)
        /\ SeasonsMirrored

\* what does hold: every mirrored field but the composition
MetadataMirrorsContentButComposition ==
    ChunksBuilt =>
        /\ Mirrors(ContentOf("characteristics"), "Weight Category",
                   MetadataOf("characteristics").weight_category)
        /\ Mirrors(ContentOf("visual"), "Color", MetadataOf("visual").color)
        /\ Mirrors(ContentOf("visual"), "Pattern", MetadataOf("visual").pattern)
        /\ Mirrors(ContentOf("usage"), "Category", MetadataOf("usage").category)
        /\ SeasonsMirrored
        /\ Truthy(fabric.composition) =>
              Mirrors(ContentOf("characteristics"), "Composition",
                      MetadataOf("characteristics").composition)

(***************************************************************************)
(* The prompt assembler                                                    *)
(***************************************************************************)
PromptBuilt == prompt # <<>>

\* C21: for every OutfitSpec the text _build_dalle_prompt returns has at
\* most 1000 characters.
C21_PromptWithinLimit == PromptBuilt => Len(prompt[1].text) <= PROMPT_LIMIT

\* a prompt that was assembled longer than the limit and came back within it
C21_Witness ==
    /\ PromptBuilt
    /\ Len(prompt[1].assembled) > PROMPT_LIMIT + NoteMargin
    /\ Len(prompt[1].text) = PROMPT_LIMIT

\* C22, as stated: a prompt assembled longer than 1000 characters comes back
\* as exactly its first 1000 characters, nothing replaced or appended; a
\* prompt that is not longer comes back unchanged.
C22_HardCut ==
    PromptBuilt =>
        prompt[1].text =
            IF Len(prompt[1].assembled) > PROMPT_LIMIT
            THEN SubSeq(prompt[1].assembled, 1, PROMPT_LIMIT)
            ELSE prompt[1].assembled

\* C22, amended: a prompt assembled longer than 1000 characters comes back
\* 1000 characters long, its first 997 characters those of the assembled
\* text and its last three the dots "..."; a prompt that is not longer comes
\* back unchanged.
C22_CutWithDots ==
    PromptBuilt =>
        LET assembled == prompt[1].assembled
            text == prompt[1].text
        IN  IF Len(assembled) > PROMPT_LIMIT
            THEN /\ Len(text) = PROMPT_LIMIT
                 /\ SubSeq(text, 1, PROMPT_LIMIT - 3) = SubSeq(assembled, 1, PROMPT_LIMIT - 3)
                 /\ SubSeq(text, PROMPT_LIMIT - 2, PROMPT_LIMIT) = "..."
            ELSE text = assembled

\* a prompt one character over the limit, cut and ended with the dots
C22_Witness ==
    /\ PromptBuilt
    /\ Len(prompt[1].assembled) = PROMPT_LIMIT + 1
    /\ prompt[1].text # SubSeq(prompt[1].assembled, 1, PROMPT_LIMIT)
    /\ SubSeq(prompt[1].text, PROMPT_LIMIT - 2, PROMPT_LIMIT) = "..."

StartsWith(s, pre) == Len(s) >= Len(pre) /\ SubSeq(s, 1, Len(pre)) = pre

EndsWith(s, suf) == Len(s) >= Len(suf) /\ SubSeq(s, Len(s) - Len(suf) + 1, Len(s)) = suf

\* the section a part of the prompt belongs to, 1 (intro) to 9 (photography)
SectionOf(part, spec) ==
    IF part = PromptIntro THEN 1
    ELSE IF part = PhotographyStyle THEN 9
    ELSE IF StartsWith(part, "made from ") THEN 3
    ELSE IF StartsWith(part, "in ") /\ EndsWith(part, " tones") THEN 4
    ELSE IF StartsWith(part, "with ") /\ EndsWith(part, " pattern") THEN 5
    ELSE IF EndsWith(part, " style") THEN 7
    ELSE IF Truthy(spec.additional_notes) /\ part = spec.additional_notes[1] THEN 8
    ELSE IF Lower(spec.season) \in DOMAIN season_map
            /\ part = season_map[Lower(spec.season)] THEN 6
    ELSE 2

\* the fabric phrase of the first fabrics of the list, at most two, in order
FabricPhrase(fabrics) ==
    "made from "
    \o Join(", ", [k \in 1..Min(2, Len(fabrics)) |-> FabricToDescription(fabrics[k])])

GivenSpec == generation.given[1]

Retrieved == \E k \in 1..Len(generation.calls) : generation.calls[k] = "_find_suitable_fabrics"

\* the outfit was made of these fabrics: their codes in order, their phrase
\* in the prompt
MadeOf(outfit, fabrics) ==
    /\ outfit.fabrics_used = [k \in 1..Len(fabrics) |-> fabrics[k].fabric_code]
    /\ TextIn(FabricPhrase(fabrics), outfit.dalle_prompt)

\* C24: when the spec carries a non-empty explicit fabrics list,
\* _find_suitable_fabrics is never invoked and the prompt and fabrics_used of
\* every outfit are built from the supplied fabrics in their order, in
\* generate_outfit and in every variant of generate_outfit_variants.
C24_ExplicitFabricsBypassRetrieval ==
    (generation.op # "idle" /\ GivenSpec.fabrics # <<>>) =>
        /\ ~Retrieved
        /\ \A k \in 1..Len(generation.outfits) :
                MadeOf(generation.outfits[k], GivenSpec.fabrics)

\* the same for generate_outfit alone
DirectCallBypassesRetrieval ==
    (generation.op = "generate_outfit" /\ GivenSpec.fabrics # <<>>) =>
        /\ ~Retrieved
        /\ \A k \in 1..Len(generation.outfits) :
                MadeOf(generation.outfits[k], GivenSpec.fabrics)

\* C26: every variant spec made from a base has the occasion and the season
\* of the base and style preferences that differ from the base's, for every
\* variant index from 0 on, and the base spec is left as it was.
C26_VariantDiffersInStyle ==
    \A k \in 1..Len(generation.variants) :
        /\ generation.variants[k].occasion = GivenSpec.occasion
        /\ generation.variants[k].season = GivenSpec.season
        /\ generation.variants[k].style_preferences # GivenSpec.style_preferences
        /\ base_spec = GivenSpec

\* the same without the difference in style
VariantKeepsOccasionAndSeason ==
    \A k \in 1..Len(generation.variants) :
        /\ generation.variants[k].occasion = GivenSpec.occasion
        /\ generation.variants[k].season = GivenSpec.season
        /\ base_spec = GivenSpec

(***************************************************************************)
(* The weight classes                                                      *)
(***************************************************************************)
Classified ==
    classes.described # <<>> /\ classes.recommended # <<>> /\ classes.categorized # <<>>

\* the class the style recommendation speaks of
RecommendedClass(text) ==
    IF TextIn("ideal for unlined or half-lined jackets", text) THEN "lightweight"
    ELSE IF TextIn("versatile for year-round suits", text) THEN "medium-weight"
    ELSE IF TextIn("excellent for structured winter suits", text) THEN "heavyweight"
    ELSE "none"

\* the category of the chunk builder that goes with a class of the prompt
CategoryOfClass(class) ==
    CASE class = "lightweight" -> "Lightweight"
      [] class = "medium-weight" -> "Medium"
      [] class = "heavyweight" -> "Heavyweight"
      [] OTHER -> "Unknown"

\* C30: for every positive weight the class the prompt assembler and the
\* style recommendation give it (lightweight below 250, medium-weight below
\* 350, heavyweight otherwise) is the category _categorize_weight gives it,
\* so no weight is heavyweight in one and uncategorised, without inferred
\* seasons, in the other.
C30_WeightClassesAgree ==
    Classified =>
        /\ RecommendedClass(classes.recommended[1]) = classes.described[1]
        /\ classes.categorized[1].category = CategoryOfClass(classes.described[1])
        /\ classes.categorized[1].seasons # <<>>

\* the two components that use the thresholds 250 and 350 agree
DescriptionAgreesWithRecommendation ==
    Classified => RecommendedClass(classes.recommended[1]) = classes.described[1]

\* below the end of the last band the three agree
ClassesAgreeBelowLastBand ==
    (Classified /\ class_weight < FABRIC_WEIGHTS[3].max) =>
        /\ classes.categorized[1].category = CategoryOfClass(classes.described[1])
        /\ classes.categorized[1].seasons # <<>>

(***************************************************************************)
(* The fabrics documents                                                   *)
(***************************************************************************)
\* the document is an object of scrape_date, total_fabrics and fabrics, the
\* fabrics under the field names of FabricData
DocumentShape ==
    /\ document.top = "object"
    /\ DOMAIN document.object = {"scrape_date", "total_fabrics", "fabrics"}
    /\ document.object.total_fabrics = Len(document.object.fabrics)
    /\ \A k \in 1..Len(document.object.fabrics) :
            DOMAIN document.object.fabrics[k] \subseteq FabricDataFields

\* the loader gave back every ingested record, each field with its value
Reconstructed ==
    /\ loaded.status = "ok"
    /\ Len(loaded.fabrics) = Len(ingested.records)
    /\ \A k \in 1..Len(ingested.records) :
        \A field \in DOMAIN ingested.records[k] \cap FabricDataFields :
            loaded.fabrics[k][field] = ingested.records[k][field]

\* C25: every fabrics document an ingestion stage writes, the scraper's and
\* the CSV importer's alike, has the shape {scrape_date, total_fabrics,
\* fabrics} with the FabricData field names, and the loaders (data.get('fabrics')
\* then FabricData(**record)) reconstruct every ingested record from it.
C25_DocumentsRoundTrip ==
    loaded.status # "none" => (DocumentShape /\ Reconstructed)

\* the same for the scraper's documents alone
ScraperDocumentsRoundTrip ==
    (loaded.status # "none" /\ ingested.by = "scraper") =>
        (DocumentShape /\ Reconstructed /\ loaded.fabrics = ingested.records)

\* a document of the CSV importer is never loaded
CSVDocumentsRaise ==
    (loaded.status # "none" /\ ingested.by = "csv") => loaded.status = "raised"

(***************************************************************************)
(* The rows the save calls leave                                           *)
(***************************************************************************)
\* the last call was save_fabric of a stored code, and it returned
Resaved ==
    store_call.op = "save_fabric" /\ store_call.status = "returned" /\ store_call.existed

\* the stored row of the record last saved
ResavedRow ==
    CHOOSE r \in database.fabrics : r.fabric_code = store_call.fabric_data[1].fabric_code

ScalarsOverwritten ==
    /\ Cardinality(FabricsOfCode(database.fabrics, store_call.fabric_data[1].fabric_code)) = 1
    /\ ResavedRow.name = store_call.fabric_data[1].name
    /\ ResavedRow.weight = store_call.fabric_data[1].weight

SeasonsOverwritten ==
    ResavedRow.seasons =
        {store_call.fabric_data[1].season[k] : k \in 1..Len(store_call.fabric_data[1].season)}

ImagesOverwritten ==
    [k \in 1..Len(ResavedRow.images) |-> ResavedRow.images[k].local_path]
        = store_call.fabric_data[1].local_image_paths

\* C27: after save_fabric(r) succeeds for a stored code the stored record is
\* r: every scalar field is r's, the stored seasons are those of r.season and
\* the stored images those of r.local_image_paths, also when r.season or
\* r.local_image_paths is empty.
C27_ResaveOverwrites ==
    Resaved => (ScalarsOverwritten /\ SeasonsOverwritten /\ ImagesOverwritten)

\* the same for the scalar fields, and for seasons and images that are given
ResaveOverwritesWhatIsGiven ==
    Resaved =>
        /\ ScalarsOverwritten
        /\ store_call.fabric_data[1].season # <<>> => SeasonsOverwritten
        /\ store_call.fabric_data[1].local_image_paths # <<>> => ImagesOverwritten

\* every embedding row belongs to a stored fabric, one row per chunk_id
EmbeddingRowsOwned ==
    /\ \A e \in database.embeddings : \E f \in database.fabrics : f.id = e.fabric_id
    /\ \A e1, e2 \in database.embeddings : e1.chunk_id = e2.chunk_id => e1 = e2

\* the last call was save_embedding, and it returned
EmbeddingSaved == store_call.op = "save_embedding" /\ store_call.status = "returned"

\* the stored row of the chunk last saved
SavedRow == CHOOSE e \in database.embeddings : e.chunk_id = store_call.chunk[1].chunk_id

\* the row is the chunk's: its fabric, its content and its vector
RowOfChunk ==
    /\ \E f \in database.fabrics :
            f.id = SavedRow.fabric_id /\ f.fabric_code = store_call.chunk[1].fabric_code
    /\ SavedRow.chunk_type = store_call.chunk[1].chunk_type
    /\ SavedRow.content = store_call.chunk[1].content
    /\ SavedRow.embedding = store_call.chunk[1].embedding

\* save_embedding for a code that is not stored raises and changes nothing
MissingFabricRaises ==
    (store_call.op = "save_embedding"
     /\ FabricsOfCode(store_call.before.fabrics, store_call.chunk[1].fabric_code) = {}) =>
        (store_call.status = "raised" /\ database = store_call.before)

\* C28: after any sequence of save_fabric and save_embedding calls every
\* embedding row references a stored fabric of the chunk's code, there is one
\* row per chunk_id at most, a save of a chunk_id replaces content, vector
\* and metadata of its row, and save_embedding for a code that is not stored
\* raises and leaves the store as it was.
C28_EmbeddingRowsFollowChunks ==
    /\ EmbeddingRowsOwned
    /\ MissingFabricRaises
    /\ EmbeddingSaved =>
        (RowOfChunk /\ SavedRow.metadata = store_call.chunk[1].metadata)

\* the same without the metadata
EmbeddingRowsFollowChunksButMetadata ==
    /\ EmbeddingRowsOwned
    /\ MissingFabricRaises
    /\ EmbeddingSaved => RowOfChunk

(***************************************************************************)
(* get_session                                                             *)
(***************************************************************************)
Happened(c, event) ==
    \E k \in 1..Len(session_use[c].events) : session_use[c].events[k] = event

Times(c, event) ==
    Cardinality({k \in 1..Len(session_use[c].events) : session_use[c].events[k] = event})

Before(c, first, second) ==
    \E j, k \in 1..Len(session_use[c].events) :
        j < k /\ session_use[c].events[j] = first /\ session_use[c].events[k] = second

Committed(c) == \E outcome \in Outcomes : Happened(c, "commit " \o outcome)

\* the session is closed once, after it was opened, and the caller leaves
\* only through the close
ClosedOnce(c) ==
    /\ Times(c, "close") <= 1
    /\ Happened(c, "close") => Before(c, "open", "close")
    /\ session_use[c].pc = "left" <=> Happened(c, "close")

CommitOnlyAfterBody(c) == Committed(c) => Happened(c, "body returns")

\* the body or the commit raised one of these
Raised(c, kinds) ==
    \E kind \in kinds : Happened(c, "body " \o kind) \/ Happened(c, "commit " \o kind)

\* C29, as stated: the session opened is closed exactly once on every path,
\* commit is attempted only when the body raised nothing, and when the body or
\* the commit raises, a rollback happens before the close and the exception
\* reaches the caller.
C29_RollbackOnEveryRaise ==
    \A c \in Callers :
        /\ ClosedOnce(c)
        /\ CommitOnlyAfterBody(c)
        /\ (session_use[c].pc = "left" /\ Raised(c, {"Exception", "BaseException"})) =>
                (Before(c, "rollback", "close") /\ session_use[c].status = "raised")

\* C29, amended: the session opened is closed exactly once on every path,
\* commit is attempted only when the body raised nothing; when the body or
\* the commit raises an Exception, a rollback happens before the close and
\* the exception reaches the caller; when either raises a BaseException that
\* is no Exception, the session is closed without a rollback and the
\* exception reaches the caller; without an exception there is no rollback.
C29_RollbackOnException ==
    \A c \in Callers :
        /\ ClosedOnce(c)
        /\ CommitOnlyAfterBody(c)
        /\ session_use[c].pc = "left" =>
            /\ Raised(c, {"Exception"}) =>
                    (Before(c, "rollback", "close") /\ session_use[c].status = "raised")
            /\ Raised(c, {"BaseException"}) =>
                    (~Happened(c, "rollback") /\ session_use[c].status = "raised")
            /\ ~Raised(c, {"Exception", "BaseException"}) =>
                    (~Happened(c, "rollback") /\ Before(c, "commit returns", "close")
                     /\ session_use[c].status = "returned")

\* a caller whose commit raised an Exception has left, rolled back and closed
C29_Witness ==
    \E c \in Callers :
        /\ session_use[c].pc = "left"
        /\ Happened(c, "commit Exception")
        /\ Before(c, "rollback", "close")


====
